---- MODULE Spec2Model ----
(***************************************************************************)
(* Points ledger, redemption state machine and Square webhook processor    *)
(* of the REWARD loyalty backend, as a state machine over the backing      *)
(* store (Postgres through Prisma).  Every awaited store call is one       *)
(* atomic step of the calling request; requests interleave between steps.  *)
(***************************************************************************)
EXTENDS Integers, Sequences, FiniteSets, TLC

VARIABLES
  ledger,        \* LedgerEvent table, in insertion order (row id = index)
  redemptions,   \* Redemption table (row id = index), committed rows
  events,        \* ExternalEvent table (row id = index)
  now,           \* wall clock, read by new Date()
  ledgerImpl,    \* which LedgerService of the repository is deployed
  uniqueIdx,     \* LedgerEvent has the (businessId,type,externalRef) unique index
  rowLock,       \* Redemption row id -> request holding its row lock, or NoProc
  pc,            \* request -> position in its handler
  loc,           \* request -> locals of the running handler
  res,           \* request -> outcome of its last finished call
  faults,        \* store failures injected so far
  entries,       \* LedgerEntry table of the customer-facing service (row id = index)
  balances,      \* CustomerBalance table: (customerId, merchantId) -> points
  transactions,  \* Transaction table (row id = index)
  tsRedemptions  \* Redemption table of the customer-facing service (row id = index)

\* the tables of the customer-facing (TypeScript) service
tsVars == <<entries, balances, transactions, tsRedemptions>>

vars == <<ledger, redemptions, events, now, ledgerImpl, uniqueIdx, rowLock, pc, loc, res, faults,
          entries, balances, transactions, tsRedemptions>>

-----------------------------------------------------------------------------
(* Bounds of the model *)

MaxLedger == 4
MaxRedemptions == 2
MaxFaults == 2
MaxEvents == 2
MaxTime == 6
MaxAmount == 120

-----------------------------------------------------------------------------
(* Universe *)

Procs == {"p1", "p2"}
NoProc == "none"
NoRef == "null"
NullTime == 0 - 1

Users == {"u1"}
Businesses == {"b1", "b2"}

\* Reward rows (read-only here): id -> businessId, costPoints, enabled
Rewards ==
  [ rw1  |-> [businessId |-> "b1", costPoints |-> 2, enabled |-> TRUE],
    rwOff |-> [businessId |-> "b1", costPoints |-> 1, enabled |-> FALSE] ]

RewardIds == DOMAIN Rewards

-----------------------------------------------------------------------------
(* LedgerService.getBalance: the sum of pointsDelta over the pair's rows *)

RECURSIVE SumDelta(_, _, _)
SumDelta(rows, u, b) ==
  IF rows = <<>> THEN 0
  ELSE (IF Head(rows).userId = u /\ Head(rows).businessId = b
          THEN Head(rows).pointsDelta ELSE 0)
       + SumDelta(Tail(rows), u, b)

getBalance(u, b) == SumDelta(ledger, u, b)

LedgerRow(u, b, t, d, ref, rid) ==
  [userId |-> u, businessId |-> b, type |-> t, pointsDelta |-> d,
   externalRef |-> ref, redemptionId |-> rid]

\* ledgerEvent.findUnique / findFirst on (businessId, type, externalRef):
\* the id of the first matching row, 0 when there is none
FindLedger(b, t, ref) ==
  LET hits == {i \in 1..Len(ledger) :
                 /\ ledger[i].businessId = b
                 /\ ledger[i].type = t
                 /\ ledger[i].externalRef = ref}
  IN IF hits = {} THEN 0 ELSE CHOOSE i \in hits : \A j \in hits : i <= j

-----------------------------------------------------------------------------
(* Redemption rows *)

NoRec ==
  [userId |-> "-", businessId |-> "-", rewardId |-> "-", status |-> "none",
   token |-> "-", expiresAt |-> NullTime, createdAt |-> NullTime,
   lockedAt |-> NullTime, confirmedAt |-> NullTime, canceledAt |-> NullTime,
   providerPaymentId |-> NoRef, providerOrderId |-> NoRef]

\* expiresAt.setMinutes(getMinutes() + 5)
TTL == 5

RedemptionIds == 1..Len(redemptions)

\* redemption.findUnique({ where: { token } }): row id, 0 when absent
FindByToken(tok) ==
  LET hits == {i \in RedemptionIds : redemptions[i].token = tok}
  IN IF hits = {} THEN 0 ELSE CHOOSE i \in hits : TRUE

-----------------------------------------------------------------------------
(* Requests: locals and results *)

Loc0 ==
  [op |-> "none", ret |-> "api", cfret |-> "api", u |-> "-", b |-> "-",
   pts |-> 0, kind |-> "-", ref |-> NoRef, rid |-> 0, rw |-> "-",
   pay |-> NoRef, ord |-> NoRef, ev |-> 0, at |-> 0, msg |-> "-",
   pend |-> NoRec, attempts |-> 0, qrToken |-> NoRef, pinCode |-> NoRef]

\* op and out: the call and how it ended; id and rec: the row it returned;
\* arg: the businessId, kind, externalRef, providerPaymentId and
\* providerOrderId it was called with
NoArg == <<"-", "-", NoRef, NoRef, NoRef>>

Res0 == [op |-> "none", out |-> "none", id |-> 0, rec |-> NoRec, arg |-> NoArg]

Result(op, out, id, rec, arg) ==
  [op |-> op, out |-> out, id |-> id, rec |-> rec, arg |-> arg]

\* The handler's API caller gets its result; the request is over.
Finish(p, op, out, id, rec) ==
  /\ pc' = [pc EXCEPT ![p] = "idle"]
  /\ loc' = [loc EXCEPT ![p] = Loc0]
  /\ res' = [res EXCEPT ![p] =
       Result(op, out, id, rec,
              <<loc[p].b, loc[p].kind, loc[p].ref, loc[p].pay, loc[p].ord>>)]

Goto(p, label) == pc' = [pc EXCEPT ![p] = label]

-----------------------------------------------------------------------------
(* confirmRedemption's exits.  Called by the /redeem/confirm route (the    *)
(* result goes to the caller) or by _attemptAutoConfirm, whose catch block *)
(* swallows every error and falls through to _markProcessed.               *)

\* _attemptAutoConfirm's catch block does not swallow: the error of
\* confirmRedemption passes to processEvent's catch block
ConfirmReturnRethrows(p, out, rec) ==
  IF loc[p].cfret = "api"
    THEN Finish(p, "confirm", out, loc[p].rid, rec)
    ELSE /\ Goto(p, IF out = "ok" THEN "pe_mark" ELSE "pe_catch")
         /\ loc' = [loc EXCEPT ![p].pend = NoRec, ![p].msg = out]
         /\ UNCHANGED res

\* msg keeps how confirmRedemption ended for _attemptAutoConfirm (which
\* logs the error)
ConfirmReturn(p, out, rec) ==
  IF loc[p].cfret = "api"
    THEN Finish(p, "confirm", out, loc[p].rid, rec)
    ELSE /\ Goto(p, "pe_mark")
         /\ loc' = [loc EXCEPT ![p].pend = NoRec, ![p].msg = out]
         /\ UNCHANGED res

\* The interactive transaction ends (commit or rollback): its row locks are
\* released; on a rollback the pending row update is dropped with them.
ReleaseLocks(p) ==
  rowLock' = [r \in DOMAIN rowLock |-> IF rowLock[r] = p THEN NoProc ELSE rowLock[r]]

-----------------------------------------------------------------------------
(* LedgerService.createEarn / createRedeem *)

\* LedgerReturn where processEvent attempts the auto-confirm only after a
\* fresh credit
LedgerReturnFreshOnly(p, out, id) ==
  CASE loc[p].ret = "api" ->
         /\ Finish(p, loc[p].op, out, id, NoRec)
         /\ UNCHANGED rowLock
    [] loc[p].ret = "confirm" ->
         IF out = "ok"
           THEN /\ Goto(p, "cf_commit")
                /\ UNCHANGED <<loc, res, rowLock>>
           ELSE /\ ReleaseLocks(p)
                /\ ConfirmReturn(p, out, NoRec)
    [] loc[p].ret = "webhook" ->
         /\ IF out = "ok"
              THEN Goto(p, IF id > Len(ledger) THEN "ac_guard" ELSE "pe_mark")
                   /\ UNCHANGED loc
              ELSE Goto(p, "pe_catch") /\ loc' = [loc EXCEPT ![p].msg = out]
         /\ UNCHANGED <<res, rowLock>>

\* What the caller of createEarn/createRedeem does with its outcome.
LedgerReturn(p, out, id) ==
  CASE loc[p].ret = "api" ->
         /\ Finish(p, loc[p].op, out, id, NoRec)
         /\ UNCHANGED rowLock
    [] loc[p].ret = "confirm" ->
         IF out = "ok"
           THEN /\ Goto(p, "cf_commit")
                /\ UNCHANGED <<loc, res, rowLock>>
           ELSE /\ ReleaseLocks(p)
                /\ ConfirmReturn(p, out, NoRec)
    [] loc[p].ret = "webhook" ->
         /\ IF out = "ok"
              THEN Goto(p, "ac_guard") /\ UNCHANGED loc
              ELSE Goto(p, "pe_catch") /\ loc' = [loc EXCEPT ![p].msg = out]
         /\ UNCHANGED <<res, rowLock>>

SignedDelta(kind, pts) == IF kind = "EARN" THEN pts ELSE 0 - pts

\* LedgerFind whose lookup never finds the existing row
LedgerFindMisses(p) ==
  /\ pc[p] = "le_find"
  /\ Goto(p, "le_create")
  /\ UNCHANGED <<loc, res, rowLock>>
  /\ UNCHANGED <<ledger, redemptions, events, now, ledgerImpl, uniqueIdx, faults>>
  /\ UNCHANGED tsVars

\* the existence check that opens createEarn/createRedeem when externalRef is set
LedgerFind(p) ==
  /\ pc[p] = "le_find"
  /\ LET id == FindLedger(loc[p].b, loc[p].kind, loc[p].ref)
     IN IF loc[p].ref # NoRef /\ id # 0
          THEN LedgerReturn(p, "ok", id)
          ELSE Goto(p, "le_create") /\ UNCHANGED <<loc, res, rowLock>>
  /\ UNCHANGED <<ledger, redemptions, events, now, ledgerImpl, uniqueIdx, faults>>
  /\ UNCHANGED tsVars

\* LedgerCreate that writes over the newest row
LedgerCreateOverwrites(p) ==
  /\ pc[p] = "le_create"
  /\ ledger' = [ledger EXCEPT ![Len(ledger)] =
       LedgerRow(loc[p].u, loc[p].b, loc[p].kind,
                 SignedDelta(loc[p].kind, loc[p].pts),
                 loc[p].ref, loc[p].rid)]
  /\ LedgerReturn(p, "ok", Len(ledger))
  /\ UNCHANGED <<redemptions, events, now, ledgerImpl, uniqueIdx, faults>>
  /\ UNCHANGED tsVars

\* LedgerCreate against a table without the unique index
LedgerCreateNoIndex(p) ==
  /\ pc[p] = "le_create"
  /\ Len(ledger) < MaxLedger
  /\ ledger' = Append(ledger,
       LedgerRow(loc[p].u, loc[p].b, loc[p].kind,
                 SignedDelta(loc[p].kind, loc[p].pts),
                 loc[p].ref, loc[p].rid))
  /\ LedgerReturn(p, "ok", Len(ledger) + 1)
  /\ UNCHANGED <<redemptions, events, now, ledgerImpl, uniqueIdx, faults>>
  /\ UNCHANGED tsVars

\* prisma.ledgerEvent.create, and the P2002 branch of the catch block
LedgerCreate(p) ==
  /\ pc[p] = "le_create"
  /\ IF loc[p].ref # NoRef /\ uniqueIdx
          /\ FindLedger(loc[p].b, loc[p].kind, loc[p].ref) # 0
       THEN /\ IF ledgerImpl = "v1"
                 THEN Goto(p, "le_reread") /\ UNCHANGED <<loc, res, rowLock>>
                 ELSE LedgerReturn(p, "P2002", 0)
            /\ UNCHANGED ledger
       ELSE /\ Len(ledger) < MaxLedger
            /\ ledger' = Append(ledger,
                 LedgerRow(loc[p].u, loc[p].b, loc[p].kind,
                           SignedDelta(loc[p].kind, loc[p].pts),
                           loc[p].ref, loc[p].rid))
            /\ LedgerReturn(p, "ok", Len(ledger) + 1)
  /\ UNCHANGED <<redemptions, events, now, ledgerImpl, uniqueIdx, faults>>
  /\ UNCHANGED tsVars

\* the retry fetch after a unique-constraint violation
LedgerReread(p) ==
  /\ pc[p] = "le_reread"
  /\ LET id == FindLedger(loc[p].b, loc[p].kind, loc[p].ref)
     IN IF id # 0 THEN LedgerReturn(p, "ok", id)
                  ELSE LedgerReturn(p, "P2002", 0)
  /\ UNCHANGED <<ledger, redemptions, events, now, ledgerImpl, uniqueIdx, faults>>
  /\ UNCHANGED tsVars

\* a direct call of createEarn / createRedeem (routes, seed, tests)
CallLedger(p, kind, u, b, pts, ref) ==
  /\ pc[p] = "idle"
  /\ Goto(p, "le_find")
  /\ loc' = [loc EXCEPT ![p] =
       [Loc0 EXCEPT !.op = IF kind = "EARN" THEN "createEarn" ELSE "createRedeem",
                    !.ret = "api", !.u = u, !.b = b, !.pts = pts,
                    !.kind = kind, !.ref = ref]]
  /\ res' = [res EXCEPT ![p] = Res0]
  /\ UNCHANGED <<ledger, redemptions, events, now, ledgerImpl, uniqueIdx, rowLock, faults>>
  /\ UNCHANGED tsVars

-----------------------------------------------------------------------------
(* RedemptionService *)

\* CreateRedemption without the balance check
CreateRedemptionAnyBalance(p, u, b, rw) ==
  /\ pc[p] = "idle"
  /\ IF ~(rw \in RewardIds /\ Rewards[rw].businessId = b /\ Rewards[rw].enabled)
       THEN Finish(p, "create", "reward_not_found", 0, NoRec)
       ELSE /\ Goto(p, "cr_create")
            /\ loc' = [loc EXCEPT ![p] =
                 [Loc0 EXCEPT !.op = "create", !.u = u, !.b = b, !.rw = rw,
                              !.at = now]]
            /\ res' = [res EXCEPT ![p] = Res0]
  /\ UNCHANGED <<ledger, redemptions, events, now, ledgerImpl, uniqueIdx, rowLock, faults>>
  /\ UNCHANGED tsVars

\* createRedemption up to the insert: the reward lookup, the balance check,
\* and expiresAt = new Date() + 5 minutes
CreateRedemption(p, u, b, rw) ==
  /\ pc[p] = "idle"
  /\ IF ~(rw \in RewardIds /\ Rewards[rw].businessId = b /\ Rewards[rw].enabled)
       THEN Finish(p, "create", "reward_not_found", 0, NoRec)
       ELSE IF getBalance(u, b) < Rewards[rw].costPoints
         THEN Finish(p, "create", "insufficient_points", 0, NoRec)
         ELSE /\ Goto(p, "cr_create")
              /\ loc' = [loc EXCEPT ![p] =
                   [Loc0 EXCEPT !.op = "create", !.u = u, !.b = b, !.rw = rw,
                                !.at = now]]
              /\ res' = [res EXCEPT ![p] = Res0]
  /\ UNCHANGED <<ledger, redemptions, events, now, ledgerImpl, uniqueIdx, rowLock, faults>>
  /\ UNCHANGED tsVars

\* prisma.redemption.create with token: generateToken(); the token column is
\* unique, so a colliding token makes the insert fail
RedemptionInsert(p, tok) ==
  /\ pc[p] = "cr_create"
  /\ IF FindByToken(tok) # 0
       THEN /\ Finish(p, "create", "P2002", 0, NoRec)
            /\ UNCHANGED redemptions
       ELSE /\ Len(redemptions) < MaxRedemptions
            /\ LET row == [NoRec EXCEPT !.userId = loc[p].u,
                                        !.businessId = loc[p].b,
                                        !.rewardId = loc[p].rw,
                                        !.status = "PENDING",
                                        !.token = tok,
                                        !.expiresAt = loc[p].at + TTL,
                                        !.createdAt = now]
               IN /\ redemptions' = Append(redemptions, row)
                  /\ Finish(p, "create", "ok", Len(redemptions) + 1, row)
  /\ UNCHANGED <<ledger, events, now, ledgerImpl, uniqueIdx, rowLock, faults>>
  /\ UNCHANGED tsVars

\* verifyAndLockToken up to the update: findUnique by token and the checks
VerifyAndLock(p, b, tok) ==
  /\ pc[p] = "idle"
  /\ LET rid == FindByToken(tok)
     IN IF rid = 0 THEN Finish(p, "verify", "invalid_token", 0, NoRec)
        ELSE IF redemptions[rid].businessId # b
          THEN Finish(p, "verify", "wrong_business", rid, NoRec)
        ELSE IF redemptions[rid].status # "PENDING"
          THEN Finish(p, "verify", "not_pending", rid, NoRec)
        ELSE IF now >= redemptions[rid].expiresAt
          THEN Finish(p, "verify", "expired", rid, NoRec)
        ELSE /\ Goto(p, "vl_update")
             /\ loc' = [loc EXCEPT ![p] =
                  [Loc0 EXCEPT !.op = "verify", !.rid = rid, !.at = now]]
             /\ res' = [res EXCEPT ![p] = Res0]
  /\ UNCHANGED <<ledger, redemptions, events, now, ledgerImpl, uniqueIdx, rowLock, faults>>
  /\ UNCHANGED tsVars

\* prisma.redemption.update({ where: { id }, data: { status: IN_PROGRESS,
\* lockedAt } }): the write is conditioned on the id alone
VerifyUpdate(p) ==
  /\ pc[p] = "vl_update"
  /\ rowLock[loc[p].rid] = NoProc
  /\ LET row == [redemptions[loc[p].rid] EXCEPT !.status = "IN_PROGRESS",
                                                !.lockedAt = now]
     IN /\ redemptions' = [redemptions EXCEPT ![loc[p].rid] = row]
        /\ Finish(p, "verify", "ok", loc[p].rid, row)
  /\ UNCHANGED <<ledger, events, now, ledgerImpl, uniqueIdx, rowLock, faults>>
  /\ UNCHANGED tsVars

\* POST /redeem/confirm -> redemptionService.confirmRedemption
CallConfirm(p, rid, pay, ord) ==
  /\ pc[p] = "idle"
  /\ Goto(p, "cf_read")
  /\ loc' = [loc EXCEPT ![p] =
       [Loc0 EXCEPT !.op = "confirm", !.cfret = "api", !.rid = rid,
                    !.pay = pay, !.ord = ord]]
  /\ res' = [res EXCEPT ![p] = Res0]
  /\ UNCHANGED <<ledger, redemptions, events, now, ledgerImpl, uniqueIdx, rowLock, faults>>
  /\ UNCHANGED tsVars

\* ConfirmRead without the early return for a CONFIRMED redemption
ConfirmReadNoIdempotentReturn(p) ==
  /\ pc[p] = "cf_read"
  /\ LET rid == loc[p].rid
     IN IF rid \notin RedemptionIds
          THEN ConfirmReturn(p, "not_found", NoRec)
        ELSE IF redemptions[rid].status = "CANCELED"
          THEN ConfirmReturn(p, "canceled", NoRec)
        ELSE IF redemptions[rid].status \notin {"IN_PROGRESS", "CONFIRMED"}
          THEN ConfirmReturn(p, "not_in_progress", NoRec)
        ELSE IF now >= redemptions[rid].expiresAt
          THEN ConfirmReturn(p, "expired", NoRec)
        ELSE /\ Goto(p, "cf_update")
             /\ loc' = [loc EXCEPT ![p].at = now,
                                   ![p].u = redemptions[rid].userId,
                                   ![p].b = redemptions[rid].businessId,
                                   ![p].pts = Rewards[redemptions[rid].rewardId].costPoints]
             /\ UNCHANGED res
  /\ UNCHANGED <<ledger, redemptions, events, now, ledgerImpl, uniqueIdx, rowLock, faults>>
  /\ UNCHANGED tsVars

\* ConfirmRead without the rule that the redemption must be IN_PROGRESS
ConfirmReadAnyOpenStatus(p) ==
  /\ pc[p] = "cf_read"
  /\ LET rid == loc[p].rid
     IN IF rid \notin RedemptionIds
          THEN ConfirmReturn(p, "not_found", NoRec)
        ELSE IF redemptions[rid].status = "CONFIRMED"
          THEN ConfirmReturn(p, "ok", redemptions[rid])
        ELSE IF redemptions[rid].status = "CANCELED"
          THEN ConfirmReturn(p, "canceled", NoRec)
        ELSE IF now >= redemptions[rid].expiresAt
          THEN ConfirmReturn(p, "expired", NoRec)
        ELSE /\ Goto(p, "cf_update")
             /\ loc' = [loc EXCEPT ![p].at = now,
                                   ![p].u = redemptions[rid].userId,
                                   ![p].b = redemptions[rid].businessId,
                                   ![p].pts = Rewards[redemptions[rid].rewardId].costPoints]
             /\ UNCHANGED res
  /\ UNCHANGED <<ledger, redemptions, events, now, ledgerImpl, uniqueIdx, rowLock, faults>>
  /\ UNCHANGED tsVars

\* confirmRedemption: tx.redemption.findUnique and the safety rules
ConfirmRead(p) ==
  /\ pc[p] = "cf_read"
  /\ LET rid == loc[p].rid
     IN IF rid \notin RedemptionIds
          THEN ConfirmReturn(p, "not_found", NoRec)
        ELSE IF redemptions[rid].status = "CONFIRMED"
          THEN ConfirmReturn(p, "ok", redemptions[rid])
        ELSE IF redemptions[rid].status = "CANCELED"
          THEN ConfirmReturn(p, "canceled", NoRec)
        ELSE IF redemptions[rid].status # "IN_PROGRESS"
          THEN ConfirmReturn(p, "not_in_progress", NoRec)
        ELSE IF now >= redemptions[rid].expiresAt
          THEN ConfirmReturn(p, "expired", NoRec)
        ELSE /\ Goto(p, "cf_update")
             /\ loc' = [loc EXCEPT ![p].at = now,
                                   ![p].u = redemptions[rid].userId,
                                   ![p].b = redemptions[rid].businessId,
                                   ![p].pts = Rewards[redemptions[rid].rewardId].costPoints]
             /\ UNCHANGED res
  /\ UNCHANGED <<ledger, redemptions, events, now, ledgerImpl, uniqueIdx, rowLock, faults>>
  /\ UNCHANGED tsVars

\* Redemption's unique (businessId, providerPaymentId) without any effect
PaymentIdNeverTaken(rid, b, pay) == FALSE

\* Redemption's unique (businessId, providerPaymentId): another row of the
\* business holds the payment id
PaymentIdTaken(rid, b, pay) ==
  /\ pay # NoRef
  /\ \E r \in RedemptionIds \ {rid} :
       /\ redemptions[r].businessId = b
       /\ redemptions[r].providerPaymentId = pay

\* ... or is about to: an open transaction wrote the payment id to another
\* row of the business; the store makes the second writer wait for its end
PaymentIdPending(p, rid, b, pay) ==
  /\ pay # NoRef
  /\ \E q \in Procs \ {p} :
       /\ \E r \in DOMAIN rowLock : rowLock[r] = q /\ r # rid
       /\ loc[q].pend.businessId = b
       /\ loc[q].pend.providerPaymentId = pay

\* confirmRedemption: tx.redemption.update to CONFIRMED.  The update takes the
\* row lock and stays invisible to other requests until the commit; then
\* ledgerService.createRedeem is called without an externalRef.
ConfirmUpdate(p) ==
  /\ pc[p] = "cf_update"
  /\ rowLock[loc[p].rid] = NoProc
  /\ ~PaymentIdPending(p, loc[p].rid, loc[p].b, loc[p].pay)
  /\ IF PaymentIdTaken(loc[p].rid, loc[p].b, loc[p].pay)
       THEN /\ ConfirmReturn(p, "P2002", NoRec)
            /\ UNCHANGED rowLock
       ELSE /\ rowLock' = [rowLock EXCEPT ![loc[p].rid] = p]
            /\ Goto(p, "le_create")
            /\ loc' = [loc EXCEPT
                 ![p].pend = [redemptions[loc[p].rid] EXCEPT
                                !.status = "CONFIRMED",
                                !.confirmedAt = now,
                                !.providerPaymentId = loc[p].pay,
                                !.providerOrderId = loc[p].ord],
                 ![p].ret = "confirm", ![p].kind = "REDEEM", ![p].ref = NoRef]
            /\ UNCHANGED res
  /\ UNCHANGED <<ledger, redemptions, events, now, ledgerImpl, uniqueIdx, faults>>
  /\ UNCHANGED tsVars

\* prisma.$transaction commits: the pending update becomes visible
ConfirmCommit(p) ==
  /\ pc[p] = "cf_commit"
  /\ redemptions' = [redemptions EXCEPT ![loc[p].rid] = loc[p].pend]
  /\ ReleaseLocks(p)
  /\ ConfirmReturn(p, "ok", loc[p].pend)
  /\ UNCHANGED <<ledger, events, now, ledgerImpl, uniqueIdx, faults>>
  /\ UNCHANGED tsVars

\* the commit fails (connection lost, transaction timeout): the row update is
\* rolled back; the ledger row, written through the global client, stays
ConfirmCommitFail(p) ==
  /\ pc[p] = "cf_commit"
  /\ faults < MaxFaults
  /\ faults' = faults + 1
  /\ ReleaseLocks(p)
  /\ ConfirmReturn(p, "commit_failed", NoRec)
  /\ UNCHANGED <<ledger, redemptions, events, now, ledgerImpl, uniqueIdx>>
  /\ UNCHANGED tsVars

\* the where clause of the sweep without its expiresAt condition
ExpiredWhateverTheDate(r) ==
  redemptions[r].status \in {"PENDING", "IN_PROGRESS"}

\* Expired that selects PENDING redemptions only
ExpiredPendingOnly(r) ==
  /\ redemptions[r].status = "PENDING"
  /\ redemptions[r].expiresAt < now

\* cancelExpiredRedemptions: one updateMany; it waits for locked rows
Expired(r) ==
  /\ redemptions[r].status \in {"PENDING", "IN_PROGRESS"}
  /\ redemptions[r].expiresAt < now

CancelExpired(p) ==
  /\ pc[p] = "idle"
  /\ \A r \in RedemptionIds : Expired(r) => rowLock[r] = NoProc
  /\ redemptions' = [r \in RedemptionIds |->
       IF Expired(r)
         THEN [redemptions[r] EXCEPT !.status = "CANCELED", !.canceledAt = now]
         ELSE redemptions[r]]
  /\ Finish(p, "sweep", "ok", Cardinality({r \in RedemptionIds : Expired(r)}), NoRec)
  /\ UNCHANGED <<ledger, events, now, ledgerImpl, uniqueIdx, rowLock, faults>>
  /\ UNCHANGED tsVars

-----------------------------------------------------------------------------
(* Square webhook: static configuration read by the processor *)

\* business.findFirst({ where: { squareLocationId } })
LocationBusiness(l) ==
  CASE l = "loc1" -> "b1"
    [] l = "loc2" -> "b2"
    [] l = "loc3" -> "b3"
    [] l = "loc4" -> "b4"
    [] OTHER -> "none"

\* userSquareLink.findUnique on (businessId, squareCustomerId)
LinkedUser(b, c) ==
  IF <<b, c>> \in {<<"b1", "sq1">>, <<"b2", "sq2">>, <<"b3", "sq3">>, <<"b4", "sq4">>}
    THEN "u1" ELSE "none"

\* rewardProgram.findFirst({ businessId, earnType: POINTS_PER_DOLLAR, enabled })
\* with its earnParamsJson
Programs ==
  [ b1 |-> [pointsPerDollar |-> 1, minSubtotalCents |-> 100, rounding |-> "FLOOR"],
    b3 |-> [pointsPerDollar |-> 0, minSubtotalCents |-> 0, rounding |-> "FLOOR"],
    b4 |-> [pointsPerDollar |-> 1, minSubtotalCents |-> 0, rounding |-> "FLOOR"] ]

(* JavaScript numbers are IEEE 754 binary64 values.  A positive value is   *)
(* kept as its 53 significand bits, most significant first, and the        *)
(* exponent of the first bit; every operation rounds its exact result to   *)
(* the nearest such value, ties to the even significand.                   *)
Precision == 53

\* the binary digits of a natural number, most significant first
RECURSIVE Bits(_)
Bits(n) == IF n = 0 THEN <<>> ELSE Bits(n \div 2) \o <<n % 2>>

RECURSIVE FromBits(_)
FromBits(bits) ==
  IF bits = <<>> THEN 0
  ELSE 2 * FromBits(SubSeq(bits, 1, Len(bits) - 1)) + bits[Len(bits)]

\* round to nearest, ties to even: bits begin with a 1 of exponent e and
\* sticky tells whether nonzero digits follow them
RoundNearestEven(bits, sticky, e) ==
  LET padded == IF Len(bits) > Precision THEN bits
                ELSE bits \o [i \in 1..(Precision + 1 - Len(bits)) |-> 0]
      keep == SubSeq(padded, 1, Precision)
      guard == padded[Precision + 1]
      rest == sticky \/ \E i \in (Precision + 2)..Len(padded) : padded[i] = 1
      up == guard = 1 /\ (rest \/ keep[Precision] = 1)
      \* keep + 1: a bit flips when all the bits after it are 1
      inc == [i \in 1..Precision |->
                IF \A j \in (i + 1)..Precision : keep[j] = 1
                  THEN 1 - keep[i] ELSE keep[i]]
      carry == \A j \in 1..Precision : keep[j] = 1
  IN IF ~up THEN [zero |-> FALSE, sig |-> keep, exp |-> e]
     ELSE IF carry
       THEN [zero |-> FALSE, sig |-> <<1>> \o SubSeq(inc, 1, Precision - 1),
             exp |-> e + 1]
       ELSE [zero |-> FALSE, sig |-> inc, exp |-> e]

\* a / d for naturals a and d > 0, as the division of two numbers gives it
DoubleQuotient(a, d) ==
  LET \* 2^i modulo d
      RECURSIVE Pow2Mod(_)
      Pow2Mod(i) ==
        IF i = 0 THEN 1 % d
        ELSE LET h == Pow2Mod(i \div 2)
             IN (h * h * (IF i % 2 = 1 THEN 2 ELSE 1)) % d
      \* the next n binary digits of rem / d (0 <= rem < d), and what
      \* remains: by long division, the remainder before digit i is
      \* rem * 2^(i-1) mod d
      Expand(rem, n) ==
        [bits |-> [i \in 1..n |-> (2 * ((rem * Pow2Mod(i - 1)) % d)) \div d],
         rem |-> (rem * Pow2Mod(n)) % d]
      \* the zero digits that open the expansion of rem / d (0 < rem < d)
      RECURSIVE LeadingZeros(_)
      LeadingZeros(rem) == IF 2 * rem >= d THEN 0 ELSE 1 + LeadingZeros(2 * rem)
      RECURSIVE SkipZeros(_)
      SkipZeros(rem) == IF 2 * rem >= d THEN rem ELSE SkipZeros(2 * rem)
      int == Bits(a \div d)
  IN IF a = 0 THEN [zero |-> TRUE, sig |-> <<>>, exp |-> 0]
     ELSE IF int # <<>>
       THEN LET ex == Expand(a % d, Precision + 1 - Len(int))
            IN RoundNearestEven(int \o ex.bits, ex.rem # 0, Len(int) - 1)
       ELSE LET ex == Expand(SkipZeros(a % d), Precision + 1)
            IN RoundNearestEven(ex.bits, ex.rem # 0,
                                0 - (LeadingZeros(a % d) + 1))

\* x * r for a natural r, as the multiplication of two numbers gives it; the
\* exact product is computed on groups of 13 bits
DoubleTimes(x, r) ==
  LET LimbBits == 13
      \* n < 2^w as w binary digits
      PadBits(n, w) == [i \in 1..w |-> (n \div 2^(w - i)) % 2]
      \* bits * r + carry, group by group from the last, with the carry out
      \* of the first bit
      RECURSIVE TimesFrom(_, _)
      TimesFrom(bits, carry) ==
        IF bits = <<>> THEN [bits |-> <<>>, carry |-> carry]
        ELSE LET w == IF Len(bits) < LimbBits THEN Len(bits) ELSE LimbBits
                 v == FromBits(SubSeq(bits, Len(bits) - w + 1, Len(bits))) * r + carry
                 t == TimesFrom(SubSeq(bits, 1, Len(bits) - w), v \div 2^w)
             IN [bits |-> t.bits \o PadBits(v % 2^w, w), carry |-> t.carry]
  IN IF x.zero \/ r = 0 THEN [zero |-> TRUE, sig |-> <<>>, exp |-> 0]
     ELSE LET t == TimesFrom(x.sig, 0)
              high == Bits(t.carry)
          IN RoundNearestEven(high \o t.bits, FALSE, x.exp + Len(high))

\* Math.floor of a value that is not negative
DoubleFloor(x) ==
  IF x.zero \/ x.exp < 0 THEN 0 ELSE FromBits(SubSeq(x.sig, 1, x.exp + 1))

\* Math.floor((amountCents / 100) * pointsPerDollar)
FloorPoints(amountCents, pointsPerDollar) ==
  DoubleFloor(DoubleTimes(DoubleQuotient(amountCents, 100), pointsPerDollar))

\* the values the specifications' payments and programs need, computed once
PointsTable ==
  [k \in {<<100, 1>>, <<200, 1>>, <<50, 1>>, <<250, 1>>, <<2000, 10>>} |->
     FloorPoints(k[1], k[2])]

\* computePoints: below the minimum not eligible, otherwise
\* Math.floor((amountCents / 100) * pointsPerDollar) whatever the rounding
computePoints(amountCents, pointsPerDollar, minSubtotalCents, rounding) ==
  LET points == IF <<amountCents, pointsPerDollar>> \in DOMAIN PointsTable
                  THEN PointsTable[<<amountCents, pointsPerDollar>>]
                  ELSE FloorPoints(amountCents, pointsPerDollar)
  IN IF amountCents < minSubtotalCents
       THEN [points |-> 0, eligible |-> FALSE]
       ELSE IF rounding = "FLOOR"
         THEN [points |-> points, eligible |-> TRUE]
         ELSE [points |-> points, eligible |-> TRUE]

\* a caller applies computePoints and gets its result
ComputePoints(p, amountCents, pointsPerDollar, minSubtotalCents, rounding) ==
  /\ pc[p] = "idle"
  /\ LET r == computePoints(amountCents, pointsPerDollar, minSubtotalCents, rounding)
     IN res' = [res EXCEPT ![p] =
          [op |-> "computePoints",
           out |-> IF r.eligible THEN "eligible" ELSE "not_eligible",
           id |-> r.points, rec |-> NoRec,
           arg |-> <<amountCents, pointsPerDollar, minSubtotalCents, rounding, NoRef>>]]
  /\ UNCHANGED <<ledger, redemptions, events, now, ledgerImpl, uniqueIdx, rowLock,
                 pc, loc, faults>>
  /\ UNCHANGED tsVars

\* `square:payment:${payment.id}`
PaymentRef(pid) == "square:payment:" \o pid

\* A payment event's payload: payload.type, payment.status, payment.id,
\* payment.order_id, payment.location_id, payment.customer_id, amount
Payload(type, st, pid, ord, l, c, amt) ==
  [type |-> type, payStatus |-> st, pid |-> pid, ord |-> ord, locId |-> l,
   custId |-> c, amount |-> amt]

\* a triage that finds no payment creditable: every event is a no-op
TriageNeverEarns(pl) ==
  [kind |-> "skip", msg |-> "-", u |-> "-", b |-> "-", pts |-> 0]

\* processEvent and _processPaymentEvent up to the first write: what the
\* event comes to, from the payload and the static configuration
Triage(pl) ==
  LET b == LocationBusiness(pl.locId)
      u == LinkedUser(b, pl.custId)
      skip == [kind |-> "skip", msg |-> "-", u |-> "-", b |-> "-", pts |-> 0]
      fail(m) == [kind |-> "fail", msg |-> m, u |-> "-", b |-> "-", pts |-> 0]
  IN IF pl.type \notin {"payment.created", "payment.updated"} THEN skip
     ELSE IF pl.payStatus # "COMPLETED" THEN skip
     ELSE IF pl.locId = NoRef THEN fail("Payment missing location_id")
     ELSE IF b = "none" THEN fail("business_not_found")
     ELSE IF pl.custId = NoRef THEN skip
     ELSE IF u = "none" THEN skip
     ELSE IF b \notin DOMAIN Programs THEN fail("reward_program_not_found")
     \* validateEarnParamsJson: pointsPerDollar is a positive integer, rounding
     \* is FLOOR, minSubtotalCents is not negative
     ELSE IF ~(/\ Programs[b].pointsPerDollar > 0
               /\ Programs[b].rounding = "FLOOR"
               /\ Programs[b].minSubtotalCents >= 0)
       THEN fail("Invalid reward program config")
     ELSE IF pl.amount = 0 THEN fail("payment_amount_missing")
     ELSE LET r == computePoints(pl.amount, Programs[b].pointsPerDollar,
                                 Programs[b].minSubtotalCents, Programs[b].rounding)
          IN IF ~r.eligible THEN skip
             ELSE [kind |-> "earn", msg |-> "-", u |-> u, b |-> b, pts |-> r.points]

\* externalEvent.findUnique on (provider, externalId): row id, 0 when absent
FindEvent(ext) ==
  LET hits == {i \in 1..Len(events) : events[i].externalId = ext}
  IN IF hits = {} THEN 0 ELSE CHOOSE i \in hits : TRUE

\* the route with an upsert whose update branch stores the delivered payload
\* and resets the status
DeliverOverwrites(p, ext, pl) ==
  /\ pc[p] = "idle"
  /\ LET old == FindEvent(ext)
         id == IF old = 0 THEN Len(events) + 1 ELSE old
     IN /\ old = 0 => Len(events) < MaxEvents
        /\ events' = IF old = 0
             THEN Append(events, [externalId |-> ext, status |-> "RECEIVED",
                                  errorMessage |-> "-", payload |-> pl])
             ELSE [events EXCEPT ![old].payload = pl, ![old].status = "RECEIVED"]
        /\ Goto(p, "pe_read")
        /\ loc' = [loc EXCEPT ![p] = [Loc0 EXCEPT !.op = "webhook", !.ev = id]]
        /\ res' = [res EXCEPT ![p] = Res0]
  /\ UNCHANGED <<ledger, redemptions, now, ledgerImpl, uniqueIdx, rowLock, faults>>
  /\ UNCHANGED tsVars

\* POST /square/webhook: upsert the ExternalEvent (update: {}), and start
\* processEvent when the stored event is RECEIVED
Deliver(p, ext, pl) ==
  /\ pc[p] = "idle"
  /\ LET old == FindEvent(ext)
         id == IF old = 0 THEN Len(events) + 1 ELSE old
     IN /\ old = 0 => Len(events) < MaxEvents
        /\ events' = IF old = 0
             THEN Append(events, [externalId |-> ext, status |-> "RECEIVED",
                                  errorMessage |-> "-", payload |-> pl])
             ELSE events
        /\ IF events'[id].status # "RECEIVED"
             THEN Finish(p, "webhook", "ok", id, NoRec)
             ELSE /\ Goto(p, "pe_read")
                  /\ loc' = [loc EXCEPT ![p] = [Loc0 EXCEPT !.op = "webhook", !.ev = id]]
                  /\ res' = [res EXCEPT ![p] = Res0]
  /\ UNCHANGED <<ledger, redemptions, now, ledgerImpl, uniqueIdx, rowLock, faults>>
  /\ UNCHANGED tsVars

\* processEvent: load the event, return if it is not RECEIVED, and run
\* _processPaymentEvent down to the createEarn call
ProcessRead(p) ==
  /\ pc[p] = "pe_read"
  /\ LET e == events[loc[p].ev]
         t == Triage(e.payload)
     IN IF e.status # "RECEIVED"
          THEN Finish(p, "webhook", "ok", loc[p].ev, NoRec)
          ELSE /\ UNCHANGED res
               /\ CASE t.kind = "skip" -> Goto(p, "pe_mark") /\ UNCHANGED loc
                    [] t.kind = "fail" ->
                         Goto(p, "pe_fail") /\ loc' = [loc EXCEPT ![p].msg = t.msg]
                    [] t.kind = "earn" ->
                         /\ Goto(p, "le_find")
                         /\ loc' = [loc EXCEPT ![p].ret = "webhook", ![p].cfret = "webhook",
                                               ![p].u = t.u, ![p].b = t.b, ![p].pts = t.pts,
                                               ![p].kind = "EARN",
                                               ![p].ref = PaymentRef(e.payload.pid),
                                               ![p].pay = e.payload.pid,
                                               ![p].ord = e.payload.ord]
  /\ UNCHANGED <<ledger, redemptions, events, now, ledgerImpl, uniqueIdx, rowLock, faults>>
  /\ UNCHANGED tsVars

\* _attemptAutoConfirm: the idempotency guard (a CONFIRMED redemption of the
\* business already carries this payment id)
AutoConfirmGuard(p) ==
  /\ pc[p] = "ac_guard"
  /\ IF \E r \in RedemptionIds :
          /\ redemptions[r].businessId = loc[p].b
          /\ redemptions[r].providerPaymentId = loc[p].pay
          /\ redemptions[r].status = "CONFIRMED"
       THEN Goto(p, "pe_mark") /\ UNCHANGED loc
       ELSE Goto(p, "ac_find") /\ loc' = [loc EXCEPT ![p].at = now]
  /\ UNCHANGED <<ledger, redemptions, events, now, ledgerImpl, uniqueIdx, rowLock, res, faults>>
  /\ UNCHANGED tsVars

\* the candidates of findMany: IN_PROGRESS, unexpired, no payment id
Candidates(u, b, at) ==
  {r \in RedemptionIds :
     /\ redemptions[r].userId = u
     /\ redemptions[r].businessId = b
     /\ redemptions[r].status = "IN_PROGRESS"
     /\ redemptions[r].expiresAt > at
     /\ redemptions[r].providerPaymentId = NoRef}

\* orderBy createdAt asc, candidates[0]: a row of least createdAt (the store
\* orders equal createdAt values as it likes)
Oldest(cands) ==
  {r \in cands : \A q \in cands : redemptions[r].createdAt <= redemptions[q].createdAt}

AutoConfirmFind(p) ==
  /\ pc[p] = "ac_find"
  /\ LET cands == Candidates(loc[p].u, loc[p].b, loc[p].at)
     IN IF cands = {}
          THEN Goto(p, "pe_mark") /\ UNCHANGED loc
          ELSE \E r \in Oldest(cands) :
                 /\ Goto(p, "cf_read")
                 /\ loc' = [loc EXCEPT ![p].rid = r]
  /\ UNCHANGED <<ledger, redemptions, events, now, ledgerImpl, uniqueIdx, rowLock, res, faults>>
  /\ UNCHANGED tsVars

\* _markProcessed / _markFailed: externalEvent.update by id
MarkEvent(p, status, msg) ==
  /\ events' = [events EXCEPT ![loc[p].ev].status = status,
                              ![loc[p].ev].errorMessage = msg]
  /\ Finish(p, "webhook", "ok", loc[p].ev, NoRec)

MarkProcessed(p) ==
  /\ pc[p] = "pe_mark"
  /\ MarkEvent(p, "PROCESSED", events[loc[p].ev].errorMessage)
  /\ UNCHANGED <<ledger, redemptions, now, ledgerImpl, uniqueIdx, rowLock, faults>>
  /\ UNCHANGED tsVars

\* MarkFailed that records the event as PROCESSED
MarkFailedAsProcessed(p) ==
  /\ pc[p] \in {"pe_fail", "pe_catch"}
  /\ MarkEvent(p, "PROCESSED", loc[p].msg)
  /\ UNCHANGED <<ledger, redemptions, now, ledgerImpl, uniqueIdx, rowLock, faults>>
  /\ UNCHANGED tsVars

MarkFailed(p) ==
  /\ pc[p] \in {"pe_fail", "pe_catch"}
  /\ MarkEvent(p, "FAILED", loc[p].msg)
  /\ UNCHANGED <<ledger, redemptions, now, ledgerImpl, uniqueIdx, rowLock, faults>>
  /\ UNCHANGED tsVars

\* A store call inside processEvent's try block throws (connection lost):
\* the findUnique, the createEarn calls, _markProcessed, or a _markFailed of
\* the try block.  Control passes to the catch block.
ProcessStoreFails(p) ==
  /\ \/ pc[p] \in {"pe_read", "pe_mark", "pe_fail"}
     \/ pc[p] \in {"le_find", "le_create", "le_reread"} /\ loc[p].ret = "webhook"
  /\ faults < MaxFaults
  /\ faults' = faults + 1
  /\ Goto(p, "pe_catch")
  /\ loc' = [loc EXCEPT ![p].msg = "store_error"]
  /\ UNCHANGED <<ledger, redemptions, events, now, ledgerImpl, uniqueIdx, rowLock, res>>
  /\ UNCHANGED tsVars

\* the _markFailed call of the catch block throws: nothing catches it, and
\* processEvent rejects to its caller
MarkFailedThrows(p) ==
  /\ pc[p] = "pe_catch"
  /\ faults < MaxFaults
  /\ faults' = faults + 1
  /\ Finish(p, "webhook", "exception", loc[p].ev, NoRec)
  /\ UNCHANGED <<ledger, redemptions, events, now, ledgerImpl, uniqueIdx, rowLock>>
  /\ UNCHANGED tsVars

\* a store call of _attemptAutoConfirm itself throws (findFirst, findMany):
\* its catch block swallows the error and _markProcessed follows
AutoConfirmStoreFails(p) ==
  /\ pc[p] \in {"ac_guard", "ac_find"}
  /\ faults < MaxFaults
  /\ faults' = faults + 1
  /\ Goto(p, "pe_mark")
  /\ UNCHANGED <<ledger, redemptions, events, now, ledgerImpl, uniqueIdx, rowLock, loc, res>>
  /\ UNCHANGED tsVars

\* a store call inside confirmRedemption's transaction throws: the
\* transaction rolls back and the error goes to confirmRedemption's caller
ConfirmStoreFails(p) ==
  /\ \/ pc[p] \in {"cf_read", "cf_update"}
     \/ pc[p] = "le_create" /\ loc[p].ret = "confirm"
  /\ faults < MaxFaults
  /\ faults' = faults + 1
  /\ ReleaseLocks(p)
  /\ ConfirmReturn(p, "store_error", NoRec)
  /\ UNCHANGED <<ledger, redemptions, events, now, ledgerImpl, uniqueIdx>>
  /\ UNCHANGED tsVars

\* time passes
Tick ==
  /\ now < MaxTime
  /\ now' = now + 1
  /\ UNCHANGED <<ledger, redemptions, events, ledgerImpl, uniqueIdx, rowLock, pc, loc, res, faults>>
  /\ UNCHANGED tsVars

\* a redemption's whole time to live passes
Lapse ==
  /\ now + TTL <= MaxTime
  /\ now' = now + TTL
  /\ UNCHANGED <<ledger, redemptions, events, ledgerImpl, uniqueIdx, rowLock, pc, loc, res, faults>>
  /\ UNCHANGED tsVars

-----------------------------------------------------------------------------
(* The customer-facing service: transactions, the cached CustomerBalance   *)
(* and the LedgerEntry table.  customer.service, ledger.service and        *)
(* redemption.service all write through the one module-level client.       *)

Customers == {"c1"}
Merchants == {"m1", "m2"}
PosTxIds == {"pt0", "pt1"}

\* the tables of the merchant-facing service, untouched by these handlers
jsTables == <<ledger, redemptions, events, now, ledgerImpl, uniqueIdx, rowLock>>

\* reward.type and reward.pointsCost, joined to the redemption by include
TsRewards ==
  [ tr1 |-> [merchantId |-> "m1", type |-> "POINTS_BASED", pointsCost |-> 1,
             isActive |-> TRUE],
    trOff |-> [merchantId |-> "m1", type |-> "POINTS_BASED", pointsCost |-> 1,
               isActive |-> FALSE] ]

\* calculatePoints: Math.floor((amountCents / 100) * pointsPerDollar)
calculatePoints(amountCents, pointsPerDollar) ==
  IF <<amountCents, pointsPerDollar>> \in DOMAIN PointsTable
    THEN PointsTable[<<amountCents, pointsPerDollar>>]
    ELSE FloorPoints(amountCents, pointsPerDollar)

\* customer.service getBalance: the cached row's points, 0 without a row
tsGetBalance(c, m) ==
  IF <<c, m>> \in DOMAIN balances THEN balances[<<c, m>>] ELSE 0

\* customerBalance.upsert: create with points = delta, or increment by delta
updateBalance(c, m, delta) ==
  [k \in DOMAIN balances \cup {<<c, m>>} |->
     IF k = <<c, m>>
       THEN (IF k \in DOMAIN balances THEN balances[k] + delta ELSE delta)
       ELSE balances[k]]

\* ledgerEntry.aggregate _sum.points over the pair's entries
RECURSIVE EntrySum(_, _, _)
EntrySum(rows, c, m) ==
  IF rows = <<>> THEN 0
  ELSE (IF Head(rows).customerId = c /\ Head(rows).merchantId = m
          THEN Head(rows).points ELSE 0) + EntrySum(Tail(rows), c, m)

\* a LedgerEntry row written by recordEarn / recordRedeem / recordRefund
Entry(c, m, type, points, tx, rid) ==
  [customerId |-> c, merchantId |-> m, type |-> type, points |-> points,
   transactionId |-> tx, redemptionId |-> rid]

\* transaction.findUnique on (posProvider, posTransactionId): row id or 0
FindTransaction(ptid) ==
  LET hits == {i \in 1..Len(transactions) : transactions[i].posTransactionId = ptid}
  IN IF hits = {} THEN 0 ELSE CHOOSE i \in hits : TRUE

\* a handler of the customer-facing service starts; the model stops taking
\* requests when the ledger is nearly full or a cached balance fell as low
\* as -MaxLedger
TsIdle(p) ==
  /\ pc[p] = "idle"
  /\ Len(entries) + Cardinality(Procs) <= MaxLedger
  /\ \A k \in DOMAIN balances : balances[k] + MaxLedger > 0

\* handlePaymentEvent: the idempotency lookup, then merchant, amount and
\* customer (by card; NoRef when the payment carries no card) are resolved
HandlePayment(p, ptid, cust, cents) ==
  /\ TsIdle(p)
  /\ IF FindTransaction(ptid) # 0
       THEN Finish(p, "payment", "ok", FindTransaction(ptid), NoRec)
       ELSE /\ Goto(p, "hp_create")
            /\ loc' = [loc EXCEPT ![p] =
                 [Loc0 EXCEPT !.op = "payment", !.ref = ptid, !.u = cust,
                              !.b = "m1", !.pts = calculatePoints(cents, 1)]]
            /\ res' = [res EXCEPT ![p] = Res0]
  /\ UNCHANGED <<faults, jsTables, tsVars>>

\* transaction.create (unique on posProvider, posTransactionId)
PaymentCreate(p) ==
  /\ pc[p] = "hp_create"
  /\ IF FindTransaction(loc[p].ref) # 0
       THEN /\ Finish(p, "payment", "P2002", 0, NoRec)
            /\ UNCHANGED transactions
       ELSE /\ transactions' = Append(transactions,
                 [posTransactionId |-> loc[p].ref, merchantId |-> loc[p].b,
                  customerId |-> loc[p].u, pointsEarned |-> loc[p].pts,
                  status |-> "COMPLETED"])
            /\ IF loc[p].u # NoRef /\ loc[p].pts > 0
                 THEN /\ Goto(p, "hp_balance")
                      /\ loc' = [loc EXCEPT ![p].ev = Len(transactions) + 1]
                      /\ UNCHANGED res
                 ELSE Finish(p, "payment", "ok", Len(transactions) + 1, NoRec)
  /\ UNCHANGED <<faults, jsTables, entries, balances, tsRedemptions>>

\* updateBalance(customerId, merchantId, pointsEarned)
PaymentBalance(p) ==
  /\ pc[p] = "hp_balance"
  /\ balances' = updateBalance(loc[p].u, loc[p].b, loc[p].pts)
  /\ Goto(p, "hp_ledger")
  /\ UNCHANGED <<loc, res, faults, jsTables, entries, transactions, tsRedemptions>>

\* recordEarn(customerId, merchantId, pointsEarned, transaction.id)
PaymentLedger(p) ==
  /\ pc[p] = "hp_ledger"
  /\ entries' = Append(entries,
       Entry(loc[p].u, loc[p].b, "EARN", loc[p].pts, loc[p].ev, 0))
  /\ Finish(p, "payment", "ok", loc[p].ev, NoRec)
  /\ UNCHANGED <<faults, jsTables, balances, transactions, tsRedemptions>>

\* handleRefundEvent: find the original transaction, compute the points
HandleRefund(p, ptid, cents) ==
  /\ TsIdle(p)
  /\ LET t == FindTransaction(ptid)
     IN IF t = 0 THEN Finish(p, "refund", "ok", 0, NoRec)
        ELSE IF transactions[t].customerId = NoRef
          THEN Finish(p, "refund", "ok", t, NoRec)
        ELSE /\ Goto(p, "hr_balance")
             /\ loc' = [loc EXCEPT ![p] =
                  [Loc0 EXCEPT !.op = "refund", !.ref = ptid, !.ev = t,
                               !.u = transactions[t].customerId,
                               !.b = transactions[t].merchantId,
                               !.pts = calculatePoints(cents, 1)]]
             /\ res' = [res EXCEPT ![p] = Res0]
  /\ UNCHANGED <<faults, jsTables, tsVars>>

\* updateBalance(customerId, merchantId, -refundPoints)
RefundBalance(p) ==
  /\ pc[p] = "hr_balance"
  /\ balances' = updateBalance(loc[p].u, loc[p].b, 0 - loc[p].pts)
  /\ Goto(p, "hr_ledger")
  /\ UNCHANGED <<loc, res, faults, jsTables, entries, transactions, tsRedemptions>>

\* recordRefund(customerId, merchantId, refundPoints, originalTransaction.id)
RefundLedger(p) ==
  /\ pc[p] = "hr_ledger"
  /\ entries' = Append(entries,
       Entry(loc[p].u, loc[p].b, "REFUND", 0 - loc[p].pts, loc[p].ev, 0))
  /\ Goto(p, "hr_status")
  /\ UNCHANGED <<loc, res, faults, jsTables, balances, transactions, tsRedemptions>>

\* transaction.update({ status: REFUNDED })
RefundStatus(p) ==
  /\ pc[p] = "hr_status"
  /\ transactions' = [transactions EXCEPT ![loc[p].ev].status = "REFUNDED"]
  /\ Finish(p, "refund", "ok", loc[p].ev, NoRec)
  /\ UNCHANGED <<faults, jsTables, entries, balances, tsRedemptions>>

\* redemption.findFirst({ where: { merchantId, OR: [{ qrToken: code },
\* { pinCode: code }] } }): the rows it may return
CodeRows(code, m) ==
  {i \in 1..Len(tsRedemptions) :
     /\ tsRedemptions[i].merchantId = m
     /\ tsRedemptions[i].qrToken = code \/ tsRedemptions[i].pinCode = code}

\* verifyRedemption(code, merchantId): it reads and returns { valid, error };
\* it writes nothing
VerifyRedemption(p, code, m) ==
  /\ TsIdle(p)
  /\ IF CodeRows(code, m) = {}
       THEN Finish(p, "verifyRedemption", "not_found", 0, NoRec)
       ELSE \E rid \in CodeRows(code, m) :
              LET row == tsRedemptions[rid]
                  rw == TsRewards[row.rewardId]
              IN IF row.status = "REDEEMED"
                   THEN Finish(p, "verifyRedemption", "already_used", rid, NoRec)
                 ELSE IF row.status = "CANCELLED"
                   THEN Finish(p, "verifyRedemption", "cancelled", rid, NoRec)
                 ELSE IF row.status = "EXPIRED"
                   THEN Finish(p, "verifyRedemption", "expired", rid, NoRec)
                 ELSE IF /\ rw.type = "POINTS_BASED"
                         /\ rw.pointsCost # 0
                         /\ tsGetBalance(row.customerId, m) < rw.pointsCost
                   THEN Finish(p, "verifyRedemption", "insufficient_points", rid, NoRec)
                 ELSE Finish(p, "verifyRedemption", "valid", rid, NoRec)
  /\ UNCHANGED <<faults, jsTables, tsVars>>

\* completeRedemption(redemptionId, merchantId): prisma.$transaction opens
CompleteRedemption(p, rid, m) ==
  /\ TsIdle(p)
  /\ Goto(p, "cp_read")
  /\ loc' = [loc EXCEPT ![p] = [Loc0 EXCEPT !.op = "complete", !.rid = rid, !.b = m]]
  /\ res' = [res EXCEPT ![p] = Res0]
  /\ UNCHANGED <<faults, jsTables, tsVars>>

\* tx.redemption.findUnique with its reward, and the checks
CompleteRead(p) ==
  /\ pc[p] = "cp_read"
  /\ LET rid == loc[p].rid
     IN IF rid \notin 1..Len(tsRedemptions)
          THEN Finish(p, "complete", "not_found", rid, NoRec)
        ELSE IF tsRedemptions[rid].merchantId # loc[p].b
          THEN Finish(p, "complete", "wrong_merchant", rid, NoRec)
        ELSE IF tsRedemptions[rid].status # "PENDING"
          THEN Finish(p, "complete", "not_pending", rid, NoRec)
        ELSE LET rw == TsRewards[tsRedemptions[rid].rewardId]
             IN /\ IF rw.type = "POINTS_BASED" /\ rw.pointsCost # 0
                     THEN Goto(p, "cp_balance")
                     ELSE Goto(p, "cp_update")
                /\ loc' = [loc EXCEPT ![p].u = tsRedemptions[rid].customerId,
                                      ![p].pts = rw.pointsCost]
                /\ UNCHANGED res
  /\ UNCHANGED <<faults, jsTables, tsVars>>

\* updateBalance(customerId, merchantId, -pointsCost), outside the transaction
CompleteBalance(p) ==
  /\ pc[p] = "cp_balance"
  /\ balances' = updateBalance(loc[p].u, loc[p].b, 0 - loc[p].pts)
  /\ Goto(p, "cp_ledger")
  /\ UNCHANGED <<loc, res, faults, jsTables, entries, transactions, tsRedemptions>>

\* recordRedeem(customerId, merchantId, pointsCost, redemptionId), outside
\* the transaction; LedgerEntry.redemptionId is unique, and the error of a
\* second row for the redemption ends the transaction
CompleteLedger(p) ==
  /\ pc[p] = "cp_ledger"
  /\ IF \E i \in 1..Len(entries) : entries[i].redemptionId = loc[p].rid
       THEN /\ Finish(p, "complete", "P2002", loc[p].rid, NoRec)
            /\ UNCHANGED entries
       ELSE /\ entries' = Append(entries,
                 Entry(loc[p].u, loc[p].b, "REDEEM", 0 - loc[p].pts, 0, loc[p].rid))
            /\ Goto(p, "cp_update")
            /\ UNCHANGED <<loc, res>>
  /\ UNCHANGED <<faults, jsTables, balances, transactions, tsRedemptions>>

\* tx.redemption.update to REDEEMED, and the commit that makes it visible
CompleteUpdate(p) ==
  /\ pc[p] = "cp_update"
  /\ tsRedemptions' = [tsRedemptions EXCEPT
       ![loc[p].rid].status = "REDEEMED",
       ![loc[p].rid].pointsDeducted = loc[p].pts]
  /\ Finish(p, "complete", "ok", loc[p].rid, NoRec)
  /\ UNCHANGED <<faults, jsTables, entries, balances, transactions>>

\* const maxAttempts = 10
maxAttempts == 10

\* isQRTokenUnique / isPINUnique: redemption.findUnique finds no row
isQRTokenUnique(q) == \A i \in 1..Len(tsRedemptions) : tsRedemptions[i].qrToken # q

isPINUnique(n) == \A i \in 1..Len(tsRedemptions) : tsRedemptions[i].pinCode # n

\* initiateRedemption(customerId, merchantId, rewardId): the reward lookup
\* and its checks, and the check of the cached balance
InitiateRedemption(p, c, m, rw) ==
  /\ pc[p] = "idle"
  /\ IF rw \notin DOMAIN TsRewards
       THEN Finish(p, "initiate", "reward_not_found", 0, NoRec)
     ELSE IF ~TsRewards[rw].isActive
       THEN Finish(p, "initiate", "reward_not_active", 0, NoRec)
     ELSE IF TsRewards[rw].merchantId # m
       THEN Finish(p, "initiate", "wrong_merchant", 0, NoRec)
     ELSE IF /\ TsRewards[rw].type = "POINTS_BASED"
             /\ TsRewards[rw].pointsCost # 0
             /\ tsGetBalance(c, m) < TsRewards[rw].pointsCost
       THEN Finish(p, "initiate", "insufficient_points", 0, NoRec)
     ELSE /\ Goto(p, "ir_cancel")
          /\ loc' = [loc EXCEPT ![p] =
               [Loc0 EXCEPT !.op = "initiate", !.u = c, !.b = m, !.rw = rw]]
          /\ res' = [res EXCEPT ![p] = Res0]
  /\ UNCHANGED <<faults, jsTables, tsVars>>

\* redemption.updateMany: the pair's PENDING redemptions become CANCELLED
InitiateCancel(p) ==
  /\ pc[p] = "ir_cancel"
  /\ tsRedemptions' =
       [i \in 1..Len(tsRedemptions) |->
          IF /\ tsRedemptions[i].customerId = loc[p].u
             /\ tsRedemptions[i].merchantId = loc[p].b
             /\ tsRedemptions[i].status = "PENDING"
            THEN [tsRedemptions[i] EXCEPT !.status = "CANCELLED"]
            ELSE tsRedemptions[i]]
  /\ Goto(p, "ir_token")
  /\ UNCHANGED <<loc, res, faults, jsTables, entries, balances, transactions>>

\* InitiateToken without the attempt limit
InitiateTokenUnbounded(p, q) ==
  /\ pc[p] = "ir_token"
  /\ IF isQRTokenUnique(q)
       THEN /\ Goto(p, "ir_pin")
            /\ loc' = [loc EXCEPT ![p].qrToken = q, ![p].attempts = 0]
       ELSE /\ loc' = [loc EXCEPT ![p].qrToken = q,
                                  ![p].attempts = loc[p].attempts + 1]
            /\ UNCHANGED pc
  /\ UNCHANGED res
  /\ UNCHANGED <<faults, jsTables, tsVars>>

\* one round of the first do-while loop: draw qrToken = `qr_${nanoid(32)}`,
\* count the attempt, give up after maxAttempts, look the token up
InitiateToken(p, q) ==
  /\ pc[p] = "ir_token"
  /\ IF loc[p].attempts + 1 > maxAttempts
       THEN Finish(p, "initiate", "no_unique_token", 0, NoRec)
       ELSE /\ IF isQRTokenUnique(q)
                 THEN /\ Goto(p, "ir_pin")
                      /\ loc' = [loc EXCEPT ![p].qrToken = q, ![p].attempts = 0]
                 ELSE /\ loc' = [loc EXCEPT ![p].qrToken = q,
                                            ![p].attempts = loc[p].attempts + 1]
                      /\ UNCHANGED pc
            /\ UNCHANGED res
  /\ UNCHANGED <<faults, jsTables, tsVars>>

\* one round of the second loop: draw pinCode = generatePIN()
InitiatePin(p, n) ==
  /\ pc[p] = "ir_pin"
  /\ IF loc[p].attempts + 1 > maxAttempts
       THEN Finish(p, "initiate", "no_unique_pin", 0, NoRec)
       ELSE /\ IF isPINUnique(n)
                 THEN /\ Goto(p, "ir_create")
                      /\ loc' = [loc EXCEPT ![p].pinCode = n, ![p].attempts = 0]
                 ELSE /\ loc' = [loc EXCEPT ![p].pinCode = n,
                                            ![p].attempts = loc[p].attempts + 1]
                      /\ UNCHANGED pc
            /\ UNCHANGED res
  /\ UNCHANGED <<faults, jsTables, tsVars>>

\* the new row of redemption.create
InitiatedRow(p) ==
  [customerId |-> loc[p].u, merchantId |-> loc[p].b, rewardId |-> loc[p].rw,
   qrToken |-> loc[p].qrToken, pinCode |-> loc[p].pinCode,
   status |-> "PENDING", pointsDeducted |-> 0]

\* redemption.create without the unique indexes on qrToken and pinCode
InitiateCreateNoIndex(p) ==
  /\ pc[p] = "ir_create"
  /\ Len(tsRedemptions) < MaxRedemptions
  /\ tsRedemptions' = Append(tsRedemptions, InitiatedRow(p))
  /\ Finish(p, "initiate", "ok", Len(tsRedemptions) + 1, NoRec)
  /\ UNCHANGED <<faults, jsTables, entries, balances, transactions>>

\* redemption.create: Redemption_qrToken_key and Redemption_pinCode_key are
\* unique indexes, so a row that repeats either value is refused (the catch
\* block logs and rethrows)
InitiateCreate(p) ==
  /\ pc[p] = "ir_create"
  /\ IF ~isQRTokenUnique(loc[p].qrToken) \/ ~isPINUnique(loc[p].pinCode)
       THEN /\ Finish(p, "initiate", "P2002", 0, NoRec)
            /\ UNCHANGED tsRedemptions
       ELSE /\ Len(tsRedemptions) < MaxRedemptions
            /\ tsRedemptions' = Append(tsRedemptions, InitiatedRow(p))
            /\ Finish(p, "initiate", "ok", Len(tsRedemptions) + 1, NoRec)
  /\ UNCHANGED <<faults, jsTables, entries, balances, transactions>>

\* cancelRedemption(redemptionId, customerId) is called
CancelRedemption(p, rid, c) ==
  /\ pc[p] = "idle"
  /\ Goto(p, "cn_read")
  /\ loc' = [loc EXCEPT ![p] = [Loc0 EXCEPT !.op = "cancel", !.rid = rid, !.u = c]]
  /\ res' = [res EXCEPT ![p] = Res0]
  /\ UNCHANGED <<faults, jsTables, tsVars>>

\* cancelRedemption without the check of the redemption's customer
CancelReadAnyCustomer(p) ==
  /\ pc[p] = "cn_read"
  /\ LET rid == loc[p].rid
     IN IF rid \notin 1..Len(tsRedemptions)
          THEN Finish(p, "cancel", "not_found", rid, NoRec)
        ELSE IF tsRedemptions[rid].status # "PENDING"
          THEN Finish(p, "cancel", "not_pending", rid, NoRec)
        ELSE Goto(p, "cn_update") /\ UNCHANGED <<loc, res>>
  /\ UNCHANGED <<faults, jsTables, tsVars>>

\* cancelRedemption: redemption.findUnique and the checks
CancelRead(p) ==
  /\ pc[p] = "cn_read"
  /\ LET rid == loc[p].rid
     IN IF rid \notin 1..Len(tsRedemptions)
          THEN Finish(p, "cancel", "not_found", rid, NoRec)
        ELSE IF tsRedemptions[rid].customerId # loc[p].u
          THEN Finish(p, "cancel", "wrong_customer", rid, NoRec)
        ELSE IF tsRedemptions[rid].status # "PENDING"
          THEN Finish(p, "cancel", "not_pending", rid, NoRec)
        ELSE Goto(p, "cn_update") /\ UNCHANGED <<loc, res>>
  /\ UNCHANGED <<faults, jsTables, tsVars>>

\* redemption.update({ where: { id }, data: { status: CANCELLED } }): the
\* write is conditioned on the id alone
CancelUpdate(p) ==
  /\ pc[p] = "cn_update"
  /\ tsRedemptions' = [tsRedemptions EXCEPT ![loc[p].rid].status = "CANCELLED"]
  /\ Finish(p, "cancel", "ok", loc[p].rid, NoRec)
  /\ UNCHANGED <<faults, jsTables, entries, balances, transactions>>

\* the ledger write of a handler fails in the store (connection lost): the
\* handler logs and rethrows; its earlier writes stay
LedgerWriteFails(p) ==
  /\ pc[p] \in {"hp_ledger", "hr_ledger", "cp_ledger"}
  /\ faults < MaxFaults
  /\ faults' = faults + 1
  /\ Finish(p, loc[p].op, "store_error", 0, NoRec)
  /\ UNCHANGED <<jsTables, tsVars>>

-----------------------------------------------------------------------------
(* Specifications *)

Tokens == {"t1", "t2"}
PaymentIds == {"pay1", "pay2"}
\* the order a payment belongs to
OrderOf(pay) ==
  CASE pay = "pay1" -> "ord1"
    [] pay = "pay2" -> "ord2"
    [] OTHER -> NoRef
EventIds == {"e1", "e2"}

\* a completed payment of 200 cents by the linked customer at b1's location
PayOk == Payload("payment.updated", "COMPLETED", "pay1", "ord1", "loc1", "sq1", 200)

\* the ledger after the seed route credited u1 at b1
SeedLedger == <<LedgerRow("u1", "b1", "EARN", 2, "seed", 0)>>

AllIdle == \A p \in Procs : pc[p] = "idle"

\* the customer-facing service's tables are empty
NoTsTables ==
  /\ entries = <<>>
  /\ balances = <<>>
  /\ transactions = <<>>
  /\ tsRedemptions = <<>>

InitProcs ==
  /\ rowLock = [r \in 1..MaxRedemptions |-> NoProc]
  /\ pc = [p \in Procs |-> "idle"]
  /\ loc = [p \in Procs |-> Loc0]
  /\ res = [p \in Procs |-> Res0]
  /\ faults = 0

LedgerSteps(p) == LedgerFind(p) \/ LedgerCreate(p) \/ LedgerReread(p)

ConfirmSteps(p) == ConfirmRead(p) \/ ConfirmUpdate(p) \/ ConfirmCommit(p)

\* the REDEEM rows written for redemption r
RedeemCount(r) ==
  Cardinality({i \in 1..Len(ledger) :
                 ledger[i].type = "REDEEM" /\ ledger[i].redemptionId = r})

(* The redemption flow, one request at a time: customer u1, who holds 2    *)
(* points at business b1, creates redemptions of the 2-point reward; the   *)
(* merchant locks and confirms them.                                       *)
InitRedeem ==
  /\ ledger = SeedLedger
  /\ redemptions = <<>>
  /\ events = <<>>
  /\ now = 0
  /\ ledgerImpl = "v1"
  /\ uniqueIdx = TRUE
  /\ InitProcs
  /\ NoTsTables

NextRedeemSeq ==
  \/ /\ AllIdle
     /\ \E p \in Procs :
          \/ CreateRedemption(p, "u1", "b1", "rw1")
          \/ \E tok \in Tokens : VerifyAndLock(p, "b1", tok)
          \/ \E rid \in 1..MaxRedemptions : CallConfirm(p, rid, NoRef, NoRef)
  \/ \E p \in Procs :
       \/ \E tok \in Tokens : RedemptionInsert(p, tok)
       \/ VerifyUpdate(p)
       \/ ConfirmSteps(p)
       \/ LedgerCreate(p)

SpecRedeemSeq == InitRedeem /\ [][NextRedeemSeq]_vars

(* Confirm calls, one at a time, on a redemption of u1 that was created    *)
(* and locked at time 0; the calls pass any payment and order ids, and     *)
(* time passes between them.                                               *)
LockedRow(tok) ==
  [NoRec EXCEPT !.userId = "u1", !.businessId = "b1", !.rewardId = "rw1",
                !.status = "IN_PROGRESS", !.token = tok, !.expiresAt = TTL,
                !.createdAt = 0, !.lockedAt = 0]

InitLocked ==
  /\ ledger = SeedLedger
  /\ redemptions = <<LockedRow("t1")>>
  /\ events = <<>>
  /\ now = 0
  /\ ledgerImpl = "v1"
  /\ uniqueIdx = TRUE
  /\ InitProcs
  /\ NoTsTables

NextConfirmSeq ==
  \/ /\ AllIdle
     /\ \/ \E p \in Procs, rid \in 1..MaxRedemptions, pay \in PaymentIds \cup {NoRef} :
             CallConfirm(p, rid, pay, OrderOf(pay))
        \/ Tick
  \/ \E p \in Procs : ConfirmSteps(p) \/ LedgerCreate(p)

SpecConfirmSeq == InitLocked /\ [][NextConfirmSeq]_vars

(* The same flow with two requests in flight at a time; a commit may fail. *)
NextRedeem ==
  \E p \in Procs :
    \/ CreateRedemption(p, "u1", "b1", "rw1")
    \/ \E tok \in Tokens : RedemptionInsert(p, tok)
    \/ \E tok \in Tokens : VerifyAndLock(p, "b1", tok)
    \/ VerifyUpdate(p)
    \/ \E rid \in 1..MaxRedemptions : CallConfirm(p, rid, NoRef, NoRef)
    \/ ConfirmSteps(p)
    \/ ConfirmCommitFail(p)
    \/ LedgerCreate(p)

SpecRedeem == InitRedeem /\ [][NextRedeem]_vars

(* LedgerService on its own.  The calls differ in each component of the    *)
(* idempotency key (businessId, type, externalRef); one carries no         *)
(* externalRef.  Both implementations of the service are covered: the one  *)
(* that looks the key up with findUnique (the unique index exists) and the *)
(* one that uses findFirst (with or without the index).                    *)
LedgerCalls ==
  { <<"EARN", "b1", "ref1">>, <<"REDEEM", "b1", "ref1">>,
    <<"EARN", "b2", "ref1">>, <<"EARN", "b1", "ref2">>,
    <<"EARN", "b1", NoRef>> }

InitLedger ==
  /\ ledger = <<>>
  /\ redemptions = <<>>
  /\ events = <<>>
  /\ now = 0
  /\ ledgerImpl \in {"v1", "v2"}
  /\ uniqueIdx \in (IF ledgerImpl = "v1" THEN {TRUE} ELSE {TRUE, FALSE})
  /\ InitProcs
  /\ NoTsTables

\* the rows holding the key (b, t, ref)
KeyRows(b, t, ref) ==
  {i \in 1..Len(ledger) :
     /\ ledger[i].businessId = b
     /\ ledger[i].type = t
     /\ ledger[i].externalRef = ref}

\* One call at a time.  No create can then meet a row written after its
\* own lookup, so the P2002 re-read has nothing to do here.
NextLedgerSeq ==
  \/ /\ AllIdle
     /\ \E p \in Procs, c \in LedgerCalls : CallLedger(p, c[1], "u1", c[2], 1, c[3])
  \/ \E p \in Procs : LedgerFind(p) \/ LedgerCreate(p)

SpecLedgerSeq == InitLedger /\ [][NextLedgerSeq]_vars

\* Calls in flight together.
NextLedgerRace ==
  \E p \in Procs :
    \/ \E c \in LedgerCalls : CallLedger(p, c[1], "u1", c[2], 1, c[3])
    \/ LedgerSteps(p)

SpecLedgerRace == InitLedger /\ [][NextLedgerRace]_vars

(* Square webhook deliveries, two in flight at a time.  u1 holds 2 points  *)
(* at b1 and two locked redemptions; the events carry payment pay1 (200    *)
(* cents, 2 points), payment pay2 (100 cents, 1 point) or a payment at an  *)
(* unknown location.  The merchant may also confirm by hand, passing pay1. *)
PayOther == Payload("payment.updated", "COMPLETED", "pay2", "ord2", "loc1", "sq1", 100)

PayNoBusiness == Payload("payment.updated", "COMPLETED", "pay1", "ord1", "loc9", "sq1", 200)

Payloads == {PayOk, PayOther, PayNoBusiness}

InitWebhook ==
  /\ ledger = SeedLedger
  /\ redemptions = <<LockedRow("t1"), LockedRow("t2")>>
  /\ events = <<>>
  /\ now = 0
  /\ ledgerImpl = "v1"
  /\ uniqueIdx = TRUE
  /\ InitProcs
  /\ NoTsTables

WebhookSteps(p) ==
  \/ ProcessRead(p)
  \/ LedgerSteps(p)
  \/ AutoConfirmGuard(p)
  \/ AutoConfirmFind(p)
  \/ ConfirmSteps(p)
  \/ MarkProcessed(p)
  \/ MarkFailed(p)

NextWebhook ==
  \E p \in Procs :
    \/ \E ext \in EventIds, pl \in Payloads : Deliver(p, ext, pl)
    \/ \E rid \in 1..MaxRedemptions : CallConfirm(p, rid, "pay1", "ord1")
    \/ WebhookSteps(p)

SpecWebhook == InitWebhook /\ [][NextWebhook]_vars

(* One customer, one locked redemption that expires at TTL, and payment    *)
(* events of every kind: credited, skipped (payment not COMPLETED) and     *)
(* failed (unknown location).  Time may pass; auto-confirm and the         *)
(* confirmation it calls may fail in the store.                            *)
PayPending == Payload("payment.created", "PENDING", "pay1", "ord1", "loc1", "sq1", 200)

ProcessPayloads == {PayOk, PayOther, PayNoBusiness, PayPending}

InitProcess ==
  /\ ledger = SeedLedger
  /\ redemptions = <<LockedRow("t1")>>
  /\ events = <<>>
  /\ now = 0
  /\ ledgerImpl = "v1"
  /\ uniqueIdx = TRUE
  /\ InitProcs
  /\ NoTsTables

AutoConfirmFaults(p) ==
  \/ AutoConfirmStoreFails(p)
  \/ ConfirmStoreFails(p)
  \/ ConfirmCommitFail(p)

NextProcess ==
  \/ \E p \in Procs :
       \/ \E ext \in EventIds, pl \in ProcessPayloads : Deliver(p, ext, pl)
       \/ WebhookSteps(p)
       \/ AutoConfirmFaults(p)
  \/ Lapse

SpecProcess == InitProcess /\ [][NextProcess]_vars

(* The same events, where the store calls of processEvent itself may fail. *)
NextProcessFaults ==
  \E p \in Procs :
    \/ \E ext \in EventIds, pl \in ProcessPayloads : Deliver(p, ext, pl)
    \/ WebhookSteps(p)
    \/ ProcessStoreFails(p)
    \/ MarkFailedThrows(p)

SpecProcessFaults == InitProcess /\ [][NextProcessFaults]_vars

(* Events of every kind the processor tells apart, processed one at a      *)
(* time while the customer holds a locked redemption: an event that is not *)
(* a payment, a payment not COMPLETED, without a customer id, of an        *)
(* unlinked customer, below the minimum, of amount 0, at an unknown        *)
(* location, at a merchant without an earn rule or with a malformed one,   *)
(* a payment of 50 cents at a merchant without a minimum, and a payment    *)
(* that is credited.                                                       *)
NextTriage ==
  \/ \E ext \in EventIds,
        pl \in { PayOk, PayPending, PayNoBusiness,
                 Payload("order.updated", "COMPLETED", "pay1", "ord1", "loc1", "sq1", 200),
                 Payload("payment.updated", "COMPLETED", "pay1", "ord1", "loc1", NoRef, 200),
                 Payload("payment.updated", "COMPLETED", "pay1", "ord1", "loc1", "sq9", 200),
                 Payload("payment.updated", "COMPLETED", "pay1", "ord1", "loc1", "sq1", 50),
                 Payload("payment.updated", "COMPLETED", "pay1", "ord1", "loc1", "sq1", 0),
                 Payload("payment.updated", "COMPLETED", "pay1", "ord1", "loc2", "sq2", 200),
                 Payload("payment.updated", "COMPLETED", "pay1", "ord1", "loc3", "sq3", 200),
                 Payload("payment.updated", "COMPLETED", "pay2", "ord2", "loc4", "sq4", 50) } :
       Deliver("p1", ext, pl)
  \/ ProcessRead("p1")
  \/ LedgerFind("p1")
  \/ LedgerCreate("p1")
  \/ AutoConfirmGuard("p1")
  \/ AutoConfirmFind("p1")
  \/ ConfirmSteps("p1")
  \/ MarkProcessed("p1")
  \/ MarkFailed("p1")

SpecTriage == InitProcess /\ [][NextTriage]_vars

\* the points the ledger credited for payment pid at business b
Credited(b, pid) ==
  LET rows == KeyRows(b, "EARN", PaymentRef(pid))
      RECURSIVE Sum(_)
      Sum(S) == IF S = {} THEN 0
                ELSE LET i == CHOOSE x \in S : TRUE
                     IN ledger[i].pointsDelta + Sum(S \ {i})
  IN Sum(rows)

\* the events that carry payment pid and came to a credit
EarnEvents(pid, status) ==
  {i \in 1..Len(events) :
     /\ events[i].payload.pid = pid
     /\ events[i].status = status
     /\ Triage(events[i].payload).kind = "earn"}

(* The redemption flow as one client drives it, one request at a time,    *)
(* while time passes and the sweep of expired redemptions runs between the *)
(* requests.                                                               *)
NextSweep ==
  \/ CreateRedemption("p1", "u1", "b1", "rw1")
  \/ \E tok \in Tokens : VerifyAndLock("p1", "b1", tok)
  \/ \E rid \in 1..MaxRedemptions : CallConfirm("p1", rid, NoRef, NoRef)
  \/ CancelExpired("p1")
  \/ AllIdle /\ Tick
  \/ AllIdle /\ Lapse
  \/ \E tok \in Tokens : RedemptionInsert("p1", tok)
  \/ VerifyUpdate("p1")
  \/ ConfirmSteps("p1")
  \/ LedgerCreate("p1")

SpecSweep == InitRedeem /\ [][NextSweep]_vars

(* A redemption of u1 that was created at time 0 and is still PENDING,     *)
(* while the merchant verifies and confirms it, payment events of u1 are   *)
(* processed, the sweep runs and time passes, in any order and with two    *)
(* requests in flight at a time.  The clock is read at 0, at the           *)
(* redemption's expiresAt and after it.                                    *)
PendingRow(tok) ==
  [NoRec EXCEPT !.userId = "u1", !.businessId = "b1", !.rewardId = "rw1",
                !.status = "PENDING", !.token = tok, !.expiresAt = TTL,
                !.createdAt = 0]

InitOrder ==
  /\ ledger = SeedLedger
  /\ redemptions = <<PendingRow("t1")>>
  /\ events = <<>>
  /\ now = 0
  /\ ledgerImpl = "v1"
  /\ uniqueIdx = TRUE
  /\ InitProcs
  /\ NoTsTables

NextOrder ==
  \/ \E p \in Procs :
       \/ VerifyAndLock(p, "b1", "t1")
       \/ VerifyUpdate(p)
       \/ \E ext \in EventIds, pl \in {PayOk, PayNoBusiness} : Deliver(p, ext, pl)
       \/ CallConfirm(p, 1, NoRef, NoRef)
       \/ WebhookSteps(p)
  \/ CancelExpired("p2")
  \/ Lapse
  \/ now >= TTL /\ Tick

SpecOrder == InitOrder /\ [][NextOrder]_vars

(* The same redemption while the merchant verifies and confirms it, the    *)
(* sweep runs and the clock advances, under fairness: the clock keeps      *)
(* advancing, a request that has started runs to its end (each handler is  *)
(* a chain of awaited store calls), and the sweep, which an operator or a  *)
(* scheduler calls through POST /admin/cancel-expired, runs again and      *)
(* again.                                                                  *)
NextExpire ==
  \/ \E p \in Procs :
       \/ VerifyAndLock(p, "b1", "t1")
       \/ VerifyUpdate(p)
       \/ CallConfirm(p, 1, NoRef, NoRef)
       \/ ConfirmSteps(p)
       \/ LedgerCreate(p)
       \/ CancelExpired(p)
  \/ Tick

SpecExpire ==
  /\ InitOrder
  /\ [][NextExpire]_vars
  /\ WF_vars(Tick)
  /\ \A p \in Procs : WF_vars(VerifyUpdate(p) \/ ConfirmSteps(p) \/ LedgerCreate(p))
  /\ SF_vars(\E p \in Procs : CancelExpired(p))

(* The same redemption and requests as one client drives them, one        *)
(* request at a time, while time passes between the requests: a payment    *)
(* event may be processed before the merchant verifies the redemption and  *)
(* another event of the same payment after it.                             *)
NextReplay ==
  \/ VerifyAndLock("p1", "b1", "t1")
  \/ \E ext \in EventIds, pl \in {PayOk, PayNoBusiness} : Deliver("p1", ext, pl)
  \/ CallConfirm("p1", 1, NoRef, NoRef)
  \/ AllIdle /\ Tick
  \/ AllIdle /\ Lapse
  \/ VerifyUpdate("p1")
  \/ ProcessRead("p1")
  \/ LedgerFind("p1")
  \/ LedgerCreate("p1")
  \/ AutoConfirmGuard("p1")
  \/ AutoConfirmFind("p1")
  \/ ConfirmSteps("p1")
  \/ MarkProcessed("p1")
  \/ MarkFailed("p1")

SpecReplay == InitOrder /\ [][NextReplay]_vars

(* Redemptions are created in both services, two requests in flight at a  *)
(* time, each drawing its token and PIN from two values, so that draws     *)
(* collide with stored values and with each other.                         *)
QrTokens == {"q1", "q2"}

Pins == {"100000", "999999"}

InitTokens ==
  /\ ledger = SeedLedger
  /\ redemptions = <<>>
  /\ events = <<>>
  /\ now = 0
  /\ ledgerImpl = "v1"
  /\ uniqueIdx = TRUE
  /\ InitProcs
  /\ transactions = <<>>
  /\ balances = [k \in {<<"c1", "m1">>} |-> 2]
  /\ entries = <<Entry("c1", "m1", "EARN", 2, 0, 0)>>
  /\ tsRedemptions = <<>>

NextTokens ==
  \E p \in Procs :
    \/ CreateRedemption(p, "u1", "b1", "rw1")
    \/ \E tok \in Tokens : RedemptionInsert(p, tok)
    \/ \E m \in Merchants : InitiateRedemption(p, "c1", m, "tr1")
    \/ InitiateCancel(p)
    \/ \E q \in QrTokens : InitiateToken(p, q)
    \/ \E n \in Pins : InitiatePin(p, n)
    \/ InitiateCreate(p)

SpecTokens == InitTokens /\ [][NextTokens]_vars

(* computePoints on its own, called once: amounts of 0 to MaxAmount cents, *)
(* earn rates per dollar, minimum subtotals, and rounding policies known   *)
(* and unknown.                                                            *)
NextPoints ==
  /\ res["p1"] = Res0
  /\ \E a \in 0..MaxAmount, r \in {1, 10, 25, 100}, m \in {0, 100},
        pol \in {"FLOOR", "CEIL", "UNKNOWN"} :
       ComputePoints("p1", a, r, m, pol)

SpecPoints == InitRedeem /\ [][NextPoints]_vars

(* The customer-facing redemption flow, one request at a time: customer   *)
(* c1 initiates redemptions, the merchants complete them, and c1 or        *)
(* another customer cancels them.                                          *)
Requesters == {"c1", "c2"}

CompleteSteps(p) ==
  CompleteRead(p) \/ CompleteBalance(p) \/ CompleteLedger(p) \/ CompleteUpdate(p)

InitiateSteps(p) ==
  \/ InitiateCancel(p)
  \/ \E q \in QrTokens : InitiateToken(p, q)
  \/ \E n \in Pins : InitiatePin(p, n)
  \/ InitiateCreate(p)

NextCancelSeq ==
  \/ /\ AllIdle
     /\ \E p \in Procs :
          \/ InitiateRedemption(p, "c1", "m1", "tr1")
          \/ \E rid \in 1..MaxRedemptions, m \in Merchants : CompleteRedemption(p, rid, m)
          \/ \E rid \in 1..MaxRedemptions + 1, c \in Requesters :
               CancelRedemption(p, rid, c)
  \/ \E p \in Procs :
       InitiateSteps(p) \/ CompleteSteps(p) \/ CancelRead(p) \/ CancelUpdate(p)

SpecCancelSeq == InitTokens /\ [][NextCancelSeq]_vars

(* The customer-facing service as one merchant terminal and one customer  *)
(* drive it, one request at a time: redemptions are initiated, cancelled   *)
(* and completed, and either merchant verifies any code, known or not.     *)
Codes == QrTokens \cup Pins \cup {"q9"}

NextVerify ==
  \/ InitiateRedemption("p1", "c1", "m1", "tr1")
  \/ \E rid \in 1..MaxRedemptions : CompleteRedemption("p1", rid, "m1")
  \/ \E rid \in 1..MaxRedemptions : CancelRedemption("p1", rid, "c1")
  \/ \E code \in Codes, m \in Merchants : VerifyRedemption("p1", code, m)
  \/ InitiateSteps("p1")
  \/ CompleteSteps("p1")
  \/ CancelRead("p1")
  \/ CancelUpdate("p1")

SpecVerify == InitTokens /\ [][NextVerify]_vars

(* Both services as one client drives them, one request at a time:        *)
(* redemptions are created for any reward (enabled, disabled, unknown) at  *)
(* either merchant, and locked, confirmed and completed, which lowers the  *)
(* balance below the reward's cost.                                        *)
NextCreate ==
  \/ \E b \in Businesses, rw \in RewardIds \cup {"rw9"} :
       CreateRedemption("p1", "u1", b, rw)
  \/ \E tok \in Tokens : RedemptionInsert("p1", tok)
  \/ \E tok \in Tokens : VerifyAndLock("p1", "b1", tok)
  \/ VerifyUpdate("p1")
  \/ \E rid \in 1..MaxRedemptions : CallConfirm("p1", rid, NoRef, NoRef)
  \/ ConfirmSteps("p1")
  \/ LedgerCreate("p1")
  \/ \E m \in Merchants, rw \in DOMAIN TsRewards \cup {"tr9"} :
       InitiateRedemption("p1", "c1", m, rw)
  \/ InitiateSteps("p1")
  \/ \E rid \in 1..MaxRedemptions : CompleteRedemption("p1", rid, "m1")
  \/ CompleteSteps("p1")

SpecCreate == InitTokens /\ [][NextCreate]_vars

(* The customer-facing service after payment pt0 of 250 cents credited    *)
(* customer c1 with 2 points at merchant m1 and c1 initiated a redemption  *)
(* of the 1-point reward: further payments, refunds and completions, two   *)
(* requests in flight at a time; a ledger write may fail.                  *)
InitTs ==
  /\ ledger = <<>>
  /\ redemptions = <<>>
  /\ events = <<>>
  /\ now = 0
  /\ ledgerImpl = "v1"
  /\ uniqueIdx = TRUE
  /\ InitProcs
  /\ transactions = <<[posTransactionId |-> "pt0", merchantId |-> "m1",
                       customerId |-> "c1", pointsEarned |-> 2,
                       status |-> "COMPLETED"]>>
  /\ balances = [k \in {<<"c1", "m1">>} |-> 2]
  /\ entries = <<Entry("c1", "m1", "EARN", 2, 1, 0)>>
  /\ tsRedemptions = <<[customerId |-> "c1", merchantId |-> "m1", rewardId |-> "tr1",
                        qrToken |-> "q1", pinCode |-> "100000",
                        status |-> "PENDING", pointsDeducted |-> 0]>>

NextTs ==
  \E p \in Procs :
    \/ \E ptid \in PosTxIds, cust \in {"c1", NoRef}, cents \in {50, 250} :
         HandlePayment(p, ptid, cust, cents)
    \/ PaymentCreate(p) \/ PaymentBalance(p) \/ PaymentLedger(p)
    \/ \E ptid \in PosTxIds : HandleRefund(p, ptid, 100)
    \/ RefundBalance(p) \/ RefundLedger(p) \/ RefundStatus(p)
    \/ \E m \in Merchants : CompleteRedemption(p, 1, m)
    \/ CompleteRead(p) \/ CompleteBalance(p) \/ CompleteLedger(p) \/ CompleteUpdate(p)
    \/ LedgerWriteFails(p)

SpecTs == InitTs /\ [][NextTs]_vars

-----------------------------------------------------------------------------
(* C1: the balance of every (customer, business) pair is never negative,   *)
(* also when a customer holds several locked redemptions whose total cost  *)
(* exceeds the balance.                                                    *)
C1_BalanceNeverNegative ==
  \A u \in Users, b \in Businesses : getBalance(u, b) >= 0

(* C2: confirm called twice in sequence on one redemption debits the       *)
(* ledger once: a redemption never has two REDEEM rows, a CONFIRMED row    *)
(* (confirmedAt, providerPaymentId, providerOrderId) is never rewritten    *)
(* and no ledger row is added for it, and every successful confirm returns *)
(* the stored record, whatever ids the call passed.                        *)
C2_Debits == \A r \in RedemptionIds : RedeemCount(r) <= 1

C2_Returns ==
  \A p \in Procs :
    (res[p].op = "confirm" /\ res[p].out = "ok" /\ AllIdle)
      => /\ res[p].rec = redemptions[res[p].id]
         /\ res[p].rec.status = "CONFIRMED"
         /\ RedeemCount(res[p].id) = 1

C2_Frozen ==
  /\ \A r \in RedemptionIds :
       redemptions[r].status = "CONFIRMED"
         => /\ redemptions'[r] = redemptions[r]
            /\ RedeemCount(r)' = RedeemCount(r)
  /\ \A p \in Procs :
       (/\ pc[p] = "cf_read" /\ pc'[p] = "idle"
        /\ loc[p].rid \in RedemptionIds
        /\ redemptions[loc[p].rid].status = "CONFIRMED")
         => /\ ledger' = ledger
            /\ res'[p].out = "ok"
            /\ res'[p].rec = redemptions[loc[p].rid]

C2_ConfirmTwiceDebitsOnce ==
  [](C2_Debits /\ C2_Returns) /\ [][C2_Frozen]_vars

\* two confirm calls on one redemption, passing different payment ids, have
\* both returned, after the clock moved on
C2_Witness ==
  \E p, q \in Procs :
    /\ p # q
    /\ res[p].op = "confirm" /\ res[p].out = "ok"
    /\ res[q].op = "confirm" /\ res[q].out = "ok"
    /\ res[p].id = res[q].id
    /\ res[p].arg # res[q].arg
    /\ res[p].rec.confirmedAt < now
    /\ AllIdle

(* C3: concurrent confirm calls on one IN_PROGRESS redemption write one    *)
(* REDEEM ledger row for it (no store failure involved).                   *)
C3_OneRedeemPerRedemption ==
  faults = 0 => \A r \in RedemptionIds : RedeemCount(r) <= 1

(* C4: confirmation is atomic: once no confirm is in flight, a redemption  *)
(* is CONFIRMED exactly when the ledger holds its REDEEM row.              *)
C4_ConfirmAtomic ==
  AllIdle => \A r \in RedemptionIds :
               (redemptions[r].status = "CONFIRMED") <=> (RedeemCount(r) >= 1)

(* C5: of all verifyAndLock calls on one redemption at most one succeeds.  *)
C5_LockOnce ==
  \A p, q \in Procs :
    (/\ res[p].op = "verify" /\ res[p].out = "ok"
     /\ res[q].op = "verify" /\ res[q].out = "ok"
     /\ res[p].id = res[q].id) => p = q


C8_OneRow ==
  \A c \in LedgerCalls : c[3] # NoRef => Cardinality(KeyRows(c[2], c[1], c[3])) <= 1

C8_SameId ==
  \A p \in Procs :
    (res[p].op \in {"createEarn", "createRedeem"} /\ res[p].arg[3] # NoRef)
      => /\ res[p].out = "ok"
         /\ KeyRows(res[p].arg[1], res[p].arg[2], res[p].arg[3]) = {res[p].id}

C8_SecondCallNoOp ==
  \A p \in Procs :
    (/\ pc[p] = "le_find" /\ loc[p].ref # NoRef
     /\ KeyRows(loc[p].b, loc[p].kind, loc[p].ref) # {}
     /\ pc'[p] # pc[p])
      => /\ pc'[p] = "idle"
         /\ ledger' = ledger
         /\ \A b \in Businesses : getBalance("u1", b)' = getBalance("u1", b)
         /\ res'[p].out = "ok"
         /\ KeyRows(loc[p].b, loc[p].kind, loc[p].ref) = {res'[p].id}

C8_SequentialIdempotent ==
  [](C8_OneRow /\ C8_SameId) /\ [][C8_SecondCallNoOp]_vars

\* both processes called with the same key, one after the other, and hold
\* the same row id
C8_Witness ==
  \E p, q \in Procs :
    /\ p # q /\ AllIdle
    /\ res[p].op \in {"createEarn", "createRedeem"} /\ res[p].out = "ok"
    /\ res[q].op = res[p].op /\ res[q].out = "ok"
    /\ res[p].arg = res[q].arg /\ res[p].arg[3] # NoRef
    /\ res[p].id = res[q].id
    /\ Len(ledger) >= 2

(* C9: when two createEarn (or createRedeem) calls with the same           *)
(* (businessId, type, externalRef) race, the key never has two rows and    *)
(* each caller returns the row that holds the key rather than an error.    *)
C9_RaceLoserRereads ==
  /\ \A c \in LedgerCalls :
       c[3] # NoRef => Cardinality(KeyRows(c[2], c[1], c[3])) <= 1
  /\ \A p \in Procs :
       (res[p].op \in {"createEarn", "createRedeem"} /\ res[p].arg[3] # NoRef)
         => /\ res[p].out = "ok"
            /\ res[p].id \in KeyRows(res[p].arg[1], res[p].arg[2], res[p].arg[3])

(* C10: the balance a customer is shown is the sum of the points of the   *)
(* pair's ledger entries; the cached CustomerBalance equals that sum       *)
(* whenever no earn, refund or completion is in flight, also after ones    *)
(* that failed part-way.                                                   *)
C10_BalanceIsLedgerSum ==
  AllIdle => \A c \in Customers, m \in Merchants :
               tsGetBalance(c, m) = EntrySum(entries, c, m)

(* C11: at most one PENDING redemption exists per (customer, business)    *)
(* pair: creating a redemption cancels the pair's earlier PENDING one.     *)
C11_OnePendingPerPair ==
  \A u \in Users, b \in Businesses :
    Cardinality({r \in RedemptionIds :
                   /\ redemptions[r].userId = u
                   /\ redemptions[r].businessId = b
                   /\ redemptions[r].status = "PENDING"}) <= 1

(* C12: an event's status only moves from RECEIVED to PROCESSED or FAILED; *)
(* once PROCESSED or FAILED it never changes again, whatever duplicate     *)
(* deliveries and concurrent processEvent invocations do.                  *)
C12_TerminalStatusStep ==
  \A i \in 1..Len(events) :
    events[i].status # "RECEIVED" => events'[i].status = events[i].status

C12_StatusNeverReverts == [][C12_TerminalStatusStep]_vars

(* C13: when an invocation of processEvent that found its event RECEIVED   *)
(* ends, the event is PROCESSED or FAILED.                                 *)
C13_InvocationEnds ==
  \A p \in Procs :
    (loc[p].op = "webhook" /\ pc[p] # "pe_read" /\ pc'[p] = "idle")
      => events'[loc[p].ev].status \in {"PROCESSED", "FAILED"}

C13_NeverLeftReceived == [][C13_InvocationEnds]_vars

(* C14: processEvent never raises to its caller, whatever store call       *)
(* failed, the write of the terminal status included.                      *)
C14_NeverRaises ==
  \A p \in Procs : res[p].op = "webhook" => res[p].out = "ok"

(* C15: an event of a COMPLETED payment at a known location, for a linked  *)
(* customer of a business with an enabled earn program and an amount at    *)
(* or above the program's minimum, never ends FAILED, and once PROCESSED   *)
(* the ledger credits the payment with exactly computePoints(amount, ...)  *)
(* points for that customer and business, whether auto-confirm found a     *)
(* redemption, found none, or failed.  Amount 2000 at 10 points per dollar *)
(* with minimum 0 gives 200.                                               *)
C15_Eligible(pl) ==
  /\ pl.type \in {"payment.created", "payment.updated"}
  /\ pl.payStatus = "COMPLETED"
  /\ LocationBusiness(pl.locId) \in DOMAIN Programs
  /\ LinkedUser(LocationBusiness(pl.locId), pl.custId) \in Users
  /\ pl.amount >= Programs[LocationBusiness(pl.locId)].minSubtotalCents

C15_Points(pl) ==
  LET prog == Programs[LocationBusiness(pl.locId)]
  IN computePoints(pl.amount, prog.pointsPerDollar, prog.minSubtotalCents,
                   prog.rounding).points

C16_First(cands) ==
  CHOOSE r \in cands :
    \A q \in cands :
      \/ redemptions[r].createdAt < redemptions[q].createdAt
      \/ redemptions[r].createdAt = redemptions[q].createdAt /\ r <= q

C16_SelectStep ==
  \A p \in Procs :
    (pc[p] = "ac_find" /\ pc'[p] = "cf_read")
      => loc'[p].rid = C16_First({r \in RedemptionIds :
                                    /\ redemptions[r].userId = loc[p].u
                                    /\ redemptions[r].businessId = loc[p].b
                                    /\ redemptions[r].status = "IN_PROGRESS"
                                    /\ redemptions[r].expiresAt > loc[p].at
                                    /\ redemptions[r].providerPaymentId = NoRef})

C16_OldestThenLowestId == [][C16_SelectStep]_vars

(* C17: when confirmRedemption fails inside auto-confirm (redemption      *)
(* expired or in the wrong status, payment id taken, store or commit       *)
(* error), the EARN row credited for the payment stays in the ledger, the  *)
(* processor goes on to mark the event PROCESSED, and no event of a        *)
(* creditable payment ends FAILED.                                         *)
C17_ConfirmFailed(p) ==
  /\ pc[p] = "pe_mark"
  /\ loc[p].msg \notin {"-", "ok"}

C17_EarnKept ==
  /\ \A pid \in PaymentIds : EarnEvents(pid, "FAILED") = {}
  /\ \A p \in Procs :
       C17_ConfirmFailed(p) =>
         LET e == events[loc[p].ev]
         IN /\ Credited(LocationBusiness(e.payload.locId), e.payload.pid)
                 = Triage(e.payload).pts
            /\ Triage(e.payload).pts > 0
            /\ e.status \in {"RECEIVED", "PROCESSED"}

C17_ThenProcessed ==
  \A p \in Procs :
    (C17_ConfirmFailed(p) /\ pc'[p] # pc[p])
      => /\ events'[loc[p].ev].status = "PROCESSED"
         /\ ledger' = ledger

C17_AutoConfirmBestEffort == []C17_EarnKept /\ [][C17_ThenProcessed]_vars

\* an event was marked PROCESSED and its payment is credited, while the
\* confirmation its auto-confirm attempted failed and confirmed nothing
C17_Witness ==
  /\ \E p \in Procs :
       /\ res[p].op = "webhook"
       /\ events[res[p].id].status = "PROCESSED"
       /\ events[res[p].id].payload = PayOk
  /\ Credited("b1", "pay1") = 2
  /\ faults > 0
  /\ now = 0
  /\ \A r \in RedemptionIds : redemptions[r].status = "IN_PROGRESS"
  /\ AllIdle

(* C18: no two redemptions share a token and no two share a PIN, in both  *)
(* services, also when creations run concurrently and draw the same value. *)
C18_TokenAndPinUnique ==
  /\ \A r1, r2 \in RedemptionIds :
       r1 # r2 => redemptions[r1].token # redemptions[r2].token
  /\ \A r1, r2 \in 1..Len(tsRedemptions) :
       r1 # r2 => /\ tsRedemptions[r1].qrToken # tsRedemptions[r2].qrToken
                  /\ tsRedemptions[r1].pinCode # tsRedemptions[r2].pinCode

\* both tables hold two redemptions, and two concurrent creations that drew
\* a value of the other were refused by the unique indexes
C18_Witness ==
  /\ Len(redemptions) = 2
  /\ Len(tsRedemptions) = 2
  /\ res["p1"].op = "create" /\ res["p1"].out = "P2002"
  /\ res["p2"].op = "initiate" /\ res["p2"].out = "P2002"

(* C19: the event table holds one row per external id, however often and  *)
(* however concurrently an event is delivered; rows are only added, and a  *)
(* delivery changes neither the payload nor the status of a stored row.    *)
C19_OneRowPerId ==
  \A i, j \in 1..Len(events) :
    i # j => events[i].externalId # events[j].externalId

C19_DeliveryStep ==
  /\ Len(events') >= Len(events)
  /\ \A i \in 1..Len(events) :
       /\ events'[i].externalId = events[i].externalId
       /\ events'[i].payload = events[i].payload
  /\ \A p \in Procs :
       (/\ pc[p] = "idle"
        /\ \/ loc'[p].op = "webhook"
           \/ pc'[p] = "idle" /\ res'[p] # res[p] /\ res'[p].op = "webhook")
         => \A i \in 1..Len(events) : events'[i] = events[i]

C19_OneEventPerExternalId == []C19_OneRowPerId /\ [][C19_DeliveryStep]_vars

\* both processes delivered event e1, its one row is PROCESSED, and a
\* second event was stored next to it
C19_Witness ==
  /\ Len(events) = 2
  /\ events[1].status = "PROCESSED"
  /\ \A p \in Procs : res[p].op = "webhook" /\ res[p].id = 1
  /\ AllIdle

(* C20: the sweep moves to CANCELED all and only the redemptions that are *)
(* PENDING or IN_PROGRESS with expiresAt before the current time, returns  *)
(* how many it changed, leaves every other redemption as it was, and adds  *)
(* nothing to the ledger, so that every balance is unchanged.              *)
C20_Due(r) ==
  /\ redemptions[r].status = "PENDING" \/ redemptions[r].status = "IN_PROGRESS"
  /\ now > redemptions[r].expiresAt

C20_IsSweep ==
  \/ \E r \in RedemptionIds :
       redemptions[r].status # "CANCELED" /\ redemptions'[r].status = "CANCELED"
  \/ /\ pc' = pc
     /\ \E p \in Procs : res'[p] # res[p] /\ res'[p].op = "sweep"

C20_SweepStep ==
  C20_IsSweep =>
    /\ Len(redemptions') = Len(redemptions)
    /\ \A r \in RedemptionIds :
         IF C20_Due(r)
           THEN /\ redemptions'[r].status = "CANCELED"
                /\ redemptions'[r].userId = redemptions[r].userId
                /\ redemptions'[r].token = redemptions[r].token
                /\ redemptions'[r].rewardId = redemptions[r].rewardId
           ELSE redemptions'[r] = redemptions[r]
    /\ ledger' = ledger
    /\ \E p \in Procs :
         /\ pc[p] = "idle" /\ pc'[p] = "idle"
         /\ res'[p].op = "sweep" /\ res'[p].out = "ok"
         /\ res'[p].id = Cardinality({r \in RedemptionIds : C20_Due(r)})

C20_SweepCancelsExpiredOnly == [][C20_SweepStep]_vars

\* a sweep at time 6 canceled the redemption that expired at 5 and returned
\* 1; the redemption that expires at 6 is still open
C20_Witness ==
  /\ now = 6
  /\ \E p \in Procs : res[p].op = "sweep" /\ res[p].id = 1
  /\ \E r1, r2 \in RedemptionIds :
       /\ redemptions[r1].status = "CANCELED" /\ redemptions[r1].expiresAt = 5
       /\ redemptions[r2].status \in {"PENDING", "IN_PROGRESS"}
       /\ redemptions[r2].expiresAt = 6

(* C21: cancel succeeds only when the redemption is PENDING and the       *)
(* requester is its customer, and then the redemption is canceled and no   *)
(* ledger entry is written; in every other case it fails and the           *)
(* redemptions, the ledger and the balances are unchanged.                 *)
C21_CancelStep ==
  \A p \in Procs :
    (loc[p].op = "cancel" /\ pc'[p] = "idle" /\ pc[p] # "idle") =>
      LET rid == loc[p].rid
          allowed == /\ rid \in 1..Len(tsRedemptions)
                     /\ tsRedemptions[rid].status = "PENDING"
                     /\ tsRedemptions[rid].customerId = loc[p].u
      IN /\ res'[p].op = "cancel"
         /\ entries' = entries
         /\ balances' = balances
         /\ IF res'[p].out = "ok"
              THEN /\ allowed
                   /\ tsRedemptions' =
                        [tsRedemptions EXCEPT ![rid].status = "CANCELLED"]
              ELSE /\ ~allowed
                   /\ tsRedemptions' = tsRedemptions

C21_CancelOnlyOwnPending == [][C21_CancelStep]_vars

\* customer c1 canceled their PENDING redemption after another customer's
\* cancel of it had failed; the ledger still has its one row
C21_Witness ==
  /\ res["p1"].op = "cancel" /\ res["p1"].out = "wrong_customer" /\ res["p1"].id = 1
  /\ res["p2"].op = "cancel" /\ res["p2"].out = "ok" /\ res["p2"].id = 1
  /\ tsRedemptions[1].status = "CANCELLED"
  /\ Len(entries) = 1
  /\ AllIdle

(* C22: a successful confirm lowers the customer's balance at the         *)
(* business by exactly the reward's cost, and the CONFIRMED redemption     *)
(* records that amount as its pointsDeducted.                              *)
C22_BalanceLowered ==
  \A u \in Users, b \in Businesses :
    AllIdle => getBalance(u, b) =
      SumDelta(SeedLedger, u, b)
        - SumDelta([r \in RedemptionIds |->
                      [userId |-> redemptions[r].userId,
                       businessId |-> redemptions[r].businessId,
                       pointsDelta |->
                         IF redemptions[r].status = "CONFIRMED"
                           THEN Rewards[redemptions[r].rewardId].costPoints
                           ELSE 0]], u, b)

C22_ConfirmRecordsDebit ==
  /\ C22_BalanceLowered
  /\ \A r \in RedemptionIds :
       redemptions[r].status = "CONFIRMED" =>
         /\ "pointsDeducted" \in DOMAIN redemptions[r]
         /\ redemptions[r].pointsDeducted = Rewards[redemptions[r].rewardId].costPoints

(* C23: computePoints returns 0 points, not eligible, when the amount is   *)
(* below the minimum, and otherwise floor(amount * rate / 100) points,     *)
(* eligible, whatever the rounding policy.                                 *)
C23_FloorOfExactProduct ==
  \A p \in Procs :
    res[p].op = "computePoints" =>
      LET amount == res[p].arg[1]
          rate == res[p].arg[2]
          minimum == res[p].arg[3]
      IN IF amount < minimum
           THEN res[p].out = "not_eligible" /\ res[p].id = 0
           ELSE res[p].out = "eligible" /\ res[p].id = (amount * rate) \div 100


(* C24: confirm re-checks the balance: when it reads an IN_PROGRESS,       *)
(* unexpired redemption whose customer holds fewer points than the reward  *)
(* costs, the call ends there with an insufficient-balance error, the      *)
(* ledger gets no row and the redemption stays as it was.                  *)
C24_ConfirmStep ==
  \A p \in Procs :
    (/\ pc[p] = "cf_read"
     /\ pc'[p] # "cf_read"
     /\ loc[p].rid \in RedemptionIds
     /\ redemptions[loc[p].rid].status = "IN_PROGRESS"
     /\ now < redemptions[loc[p].rid].expiresAt
     /\ getBalance(redemptions[loc[p].rid].userId, redemptions[loc[p].rid].businessId)
          < Rewards[redemptions[loc[p].rid].rewardId].costPoints)
    => /\ pc'[p] = "idle"
       /\ res'[p].out = "insufficient_balance"
       /\ ledger' = ledger
       /\ redemptions' = redemptions

C24_ConfirmRechecksBalance == [][C24_ConfirmStep]_vars


(* C25: CONFIRMED and CANCELED are absorbing: no step of any request, in   *)
(* any interleaving, changes the status of a redemption that is CONFIRMED  *)
(* or CANCELED.                                                            *)
C25_AbsorbingStep ==
  \A r \in RedemptionIds :
    redemptions[r].status \in {"CONFIRMED", "CANCELED"}
      => redemptions'[r].status = redemptions[r].status

C25_TerminalStatesAbsorbing == [][C25_AbsorbingStep]_vars


(* C26: no redemption is moved to CONFIRMED at or after its expiresAt,     *)
(* neither by the merchant's confirm nor by auto-confirm: every CONFIRMED  *)
(* redemption was confirmed before it expired, and a redemption that is    *)
(* IN_PROGRESS and expired when a confirmation reads it stays IN_PROGRESS  *)
(* with no REDEEM row.                                                     *)
C26_ConfirmedInTime ==
  \A r \in RedemptionIds :
    redemptions[r].status = "CONFIRMED"
      => redemptions[r].confirmedAt < redemptions[r].expiresAt

C26_ExpiredReadFails ==
  \A p \in Procs :
    (/\ pc[p] = "cf_read"
     /\ pc'[p] # "cf_read"
     /\ loc[p].rid \in RedemptionIds
     /\ redemptions[loc[p].rid].status = "IN_PROGRESS"
     /\ now >= redemptions[loc[p].rid].expiresAt)
    => /\ pc'[p] \notin {"cf_update", "le_create", "cf_commit"}
       /\ ledger' = ledger
       /\ redemptions' = redemptions

C26_NeverConfirmedExpired == []C26_ConfirmedInTime /\ [][C26_ExpiredReadFails]_vars


(* C27: a redemption reaches CONFIRMED only from IN_PROGRESS.  Every       *)
(* CONFIRMED redemption carries a lockedAt, set by verifyAndLock, that is  *)
(* not later than its confirmedAt; and the step that makes a redemption    *)
(* CONFIRMED finds it IN_PROGRESS, so a payment event processed before the *)
(* verify call leaves the PENDING redemption PENDING.                      *)
C27_LockedFirst ==
  \A r \in RedemptionIds :
    redemptions[r].status = "CONFIRMED"
      => /\ redemptions[r].lockedAt # NullTime
         /\ redemptions[r].lockedAt <= redemptions[r].confirmedAt

C27_ConfirmStep ==
  \A r \in RedemptionIds :
    (redemptions'[r].status = "CONFIRMED" /\ redemptions[r].status # "CONFIRMED")
      => redemptions[r].status = "IN_PROGRESS"

\* the customer-facing service's completion (status REDEEMED)
C27_CompleteStep ==
  \A r \in 1..Len(tsRedemptions) :
    (tsRedemptions'[r].status = "REDEEMED" /\ tsRedemptions[r].status # "REDEEMED")
      => tsRedemptions[r].status = "IN_PROGRESS"

C27_ConfirmedOnlyFromInProgress ==
  []C27_LockedFirst /\ [][C27_ConfirmStep /\ C27_CompleteStep]_vars


(* C28: auto-confirm is attempted on every processed eligible payment      *)
(* event, also when its credit was an idempotent replay.  When the         *)
(* processing of such an event comes to mark it PROCESSED, either a        *)
(* redemption of the business is CONFIRMED with the event's payment id or  *)
(* the customer has no unexpired IN_PROGRESS redemption without a payment  *)
(* id; and a payment is credited once, whatever the number of its events.  *)
C28_Attempted ==
  \A p \in Procs :
    (pc[p] = "pe_mark" /\ Triage(events[loc[p].ev].payload).kind = "earn")
      => LET pl == events[loc[p].ev].payload
             t == Triage(pl)
         IN \/ \E r \in RedemptionIds :
                 /\ redemptions[r].businessId = t.b
                 /\ redemptions[r].status = "CONFIRMED"
                 /\ redemptions[r].providerPaymentId = pl.pid
            \/ Candidates(t.u, t.b, now) = {}

C28_CreditedOnce ==
  \A i \in 1..Len(events) :
    LET t == Triage(events[i].payload)
    IN t.kind = "earn" => Credited(t.b, events[i].payload.pid) \in {0, t.pts}

C28_AutoConfirmOnReplay == C28_Attempted /\ C28_CreditedOnce

\* the second event of payment pay1 confirmed redemption 1, which was still
\* PENDING when the first event was processed and credited
C28_Witness ==
  \E p \in Procs :
    /\ pc[p] = "pe_mark"
    /\ loc[p].ev = 2
    /\ loc[p].rid = 1
    /\ Len(events) = 2
    /\ events[1].payload = PayOk /\ events[1].status = "PROCESSED"
    /\ events[2].payload = PayOk /\ events[2].status = "RECEIVED"
    /\ redemptions[1].status = "CONFIRMED"
    /\ redemptions[1].providerPaymentId = "pay1"
    /\ Credited("b1", "pay1") = 2
    /\ getBalance("u1", "b1") = 2


(* C29: confirm on a redemption that is CANCELED, or in any status other   *)
(* than IN_PROGRESS and CONFIRMED (still PENDING), or IN_PROGRESS and      *)
(* expired, fails with a state error and changes neither the redemption    *)
(* (status, provider ids) nor the ledger.                                  *)
C29_ConfirmStep ==
  \A p \in Procs :
    (/\ pc[p] = "cf_read"
     /\ pc'[p] # "cf_read"
     /\ loc[p].rid \in RedemptionIds
     /\ \/ redemptions[loc[p].rid].status \notin {"IN_PROGRESS", "CONFIRMED"}
        \/ /\ redemptions[loc[p].rid].status = "IN_PROGRESS"
           /\ now >= redemptions[loc[p].rid].expiresAt)
    => /\ pc'[p] = "idle"
       /\ res'[p].op = "confirm"
       /\ res'[p].out =
            IF redemptions[loc[p].rid].status = "CANCELED" THEN "canceled"
            ELSE IF redemptions[loc[p].rid].status = "IN_PROGRESS" THEN "expired"
            ELSE "not_in_progress"
       /\ redemptions' = redemptions
       /\ ledger' = ledger

C29_ConfirmRejectsOtherStates == [][C29_ConfirmStep]_vars

\* confirm failed on a CANCELED redemption and, earlier, the sweep had
\* canceled it; another redemption is still PENDING
C29_Witness ==
  /\ pc["p1"] = "idle"
  /\ res["p1"].op = "confirm"
  /\ res["p1"].out = "canceled"
  /\ res["p1"].id \in RedemptionIds
  /\ redemptions[res["p1"].id].status = "CANCELED"
  /\ redemptions[res["p1"].id].providerPaymentId = NoRef
  /\ \E r \in RedemptionIds : redemptions[r].status = "PENDING"
  /\ ledger = SeedLedger


(* C30: verifyAndLock fails with NotFound for an unknown code, with        *)
(* WrongMerchant when the redemption belongs to another merchant, with     *)
(* InvalidState when its status is not PENDING and with Expired when       *)
(* now >= expiresAt, checked in that order; a failed call leaves the       *)
(* redemption's status and lockedAt as they were.                          *)
C30_VerifyAndLockToken ==
  \A p \in Procs, b \in {"b1", "b2"}, tok \in Tokens :
    VerifyAndLock(p, b, tok) =>
      LET rid == FindByToken(tok)
          failure ==
            IF rid = 0 THEN "invalid_token"
            ELSE IF redemptions[rid].businessId # b THEN "wrong_business"
            ELSE IF redemptions[rid].status # "PENDING" THEN "not_pending"
            ELSE IF now >= redemptions[rid].expiresAt THEN "expired"
            ELSE "none"
      IN /\ redemptions' = redemptions
         /\ IF failure = "none"
              THEN pc'[p] = "vl_update"
              ELSE pc'[p] = "idle" /\ res'[p].op = "verify" /\ res'[p].out = failure

\* the customer-facing service's verification, by QR token or PIN
C30_VerifyRedemption ==
  \A p \in Procs, code \in Codes, m \in Merchants :
    VerifyRedemption(p, code, m) =>
      LET rows == {i \in 1..Len(tsRedemptions) :
                     tsRedemptions[i].qrToken = code \/ tsRedemptions[i].pinCode = code}
      IN /\ tsRedemptions' = tsRedemptions
         /\ res'[p].op = "verifyRedemption"
         /\ IF rows = {} THEN res'[p].out = "not_found"
            ELSE IF \A i \in rows : tsRedemptions[i].merchantId # m
              THEN res'[p].out = "wrong_merchant"
            ELSE IF \A i \in rows : tsRedemptions[i].merchantId = m
                                     => tsRedemptions[i].status # "PENDING"
              THEN res'[p].out \in {"already_used", "cancelled", "expired"}
            ELSE res'[p].out \in {"valid", "insufficient_points"}

C30_VerifyErrorOrder == [][C30_VerifyAndLockToken /\ C30_VerifyRedemption]_vars


(* C31: createRedemption fails when the reward does not exist, is          *)
(* disabled, belongs to another merchant, or the customer's balance is     *)
(* below its cost; the failed call creates no redemption and changes no    *)
(* redemption's status.  Both services' operations are covered.            *)
C31_CreateRedemption ==
  \A p \in Procs, u \in Users, b \in Businesses, rw \in RewardIds \cup {"rw9"} :
    (/\ CreateRedemption(p, u, b, rw)
     /\ \/ rw \notin RewardIds
        \/ ~Rewards[rw].enabled
        \/ Rewards[rw].businessId # b
        \/ getBalance(u, b) < Rewards[rw].costPoints)
    => /\ pc'[p] = "idle"
       /\ res'[p].op = "create"
       /\ res'[p].out \in {"reward_not_found", "insufficient_points"}
       /\ redemptions' = redemptions
       /\ tsRedemptions' = tsRedemptions

C31_InitiateRedemption ==
  \A p \in Procs, c \in Customers, m \in Merchants, rw \in DOMAIN TsRewards \cup {"tr9"} :
    (/\ InitiateRedemption(p, c, m, rw)
     /\ \/ rw \notin DOMAIN TsRewards
        \/ ~TsRewards[rw].isActive
        \/ TsRewards[rw].merchantId # m
        \/ /\ TsRewards[rw].type = "POINTS_BASED"
           /\ tsGetBalance(c, m) < TsRewards[rw].pointsCost)
    => /\ pc'[p] = "idle"
       /\ res'[p].op = "initiate"
       /\ res'[p].out \in {"reward_not_found", "reward_not_active",
                           "wrong_merchant", "insufficient_points"}
       /\ redemptions' = redemptions
       /\ tsRedemptions' = tsRedemptions

C31_CreateFailsCleanly == [][C31_CreateRedemption /\ C31_InitiateRedemption]_vars

\* the customer-facing service refused a redemption for lack of points after
\* two redemptions were completed, and the other service holds a PENDING
\* redemption and a CONFIRMED one that the refusals left alone
C31_Witness ==
  /\ res["p1"].op = "initiate"
  /\ res["p1"].out = "insufficient_points"
  /\ tsGetBalance("c1", "m1") = 0
  /\ Len(tsRedemptions) = 2
  /\ \A i \in 1..2 : tsRedemptions[i].status = "REDEEMED"
  /\ getBalance("u1", "b1") = 0
  /\ Len(redemptions) = 2
  /\ redemptions[1].status = "CONFIRMED"
  /\ redemptions[2].status = "PENDING"


(* C32: processing an event that is not a payment event, whose payment is  *)
(* not COMPLETED, whose payment (at a known merchant) has no customer id   *)
(* or no customer link, or whose amount is below the merchant's minimum,   *)
(* marks the event PROCESSED and leaves the ledger and the redemptions     *)
(* unchanged.                                                              *)
C32_Skipped(pl) ==
  LET b == LocationBusiness(pl.locId)
  IN \/ pl.type \notin {"payment.created", "payment.updated"}
     \/ pl.payStatus # "COMPLETED"
     \/ /\ b # "none"
        /\ pl.custId = NoRef \/ LinkedUser(b, pl.custId) = "none"
     \/ /\ b \in DOMAIN Programs
        /\ LinkedUser(b, pl.custId) # "none"
        /\ Programs[b].pointsPerDollar > 0
        /\ pl.amount < Programs[b].minSubtotalCents

C32_MarkedProcessed ==
  \A i \in 1..Len(events) :
    (C32_Skipped(events[i].payload) /\ events[i].status # "RECEIVED")
      => events[i].status = "PROCESSED"

C32_NoEffect ==
  \A p \in Procs :
    (pc[p] # "idle" /\ loc[p].op = "webhook" /\ C32_Skipped(events[loc[p].ev].payload))
      => ledger' = ledger /\ redemptions' = redemptions

C32_SkipsAreNoOps == []C32_MarkedProcessed /\ [][C32_NoEffect]_vars

(* C33: processing a completed payment event whose location resolves to no *)
(* merchant, or whose merchant has no enabled earn rule or a malformed     *)
(* one, marks the event FAILED with a reason and leaves the ledger and the *)
(* redemptions unchanged.                                                  *)
C33_Failing(pl) ==
  LET b == LocationBusiness(pl.locId)
  IN /\ pl.type \in {"payment.created", "payment.updated"}
     /\ pl.payStatus = "COMPLETED"
     /\ pl.locId # NoRef
     /\ \/ b = "none"
        \/ /\ LinkedUser(b, pl.custId) # "none"
           /\ \/ b \notin DOMAIN Programs
              \/ Programs[b].pointsPerDollar <= 0
              \/ Programs[b].rounding # "FLOOR"
              \/ Programs[b].minSubtotalCents < 0

C33_MarkedFailed ==
  \A i \in 1..Len(events) :
    (C33_Failing(events[i].payload) /\ events[i].status # "RECEIVED")
      => /\ events[i].status = "FAILED"
         /\ events[i].errorMessage \in
              {"business_not_found", "reward_program_not_found",
               "Invalid reward program config"}

C33_NoEffect ==
  \A p \in Procs :
    (pc[p] # "idle" /\ loc[p].op = "webhook" /\ C33_Failing(events[loc[p].ev].payload))
      => ledger' = ledger /\ redemptions' = redemptions

C34_StatusKept ==
  \A i \in 1..Len(events) :
    events[i].status # "RECEIVED"
      => /\ events'[i].status = events[i].status
         /\ events'[i].errorMessage = events[i].errorMessage

C34_ProcessEventSkips ==
  \A p \in Procs :
    (ProcessRead(p) /\ events[loc[p].ev].status # "RECEIVED")
      => /\ pc'[p] = "idle"
         /\ events' = events /\ ledger' = ledger /\ redemptions' = redemptions

C34_RedeliverySkips ==
  \A p \in Procs, ext \in EventIds :
    (/\ FindEvent(ext) # 0
     /\ events[FindEvent(ext)].status # "RECEIVED"
     /\ \E pl \in ProcessPayloads : Deliver(p, ext, pl))
      => /\ pc'[p] = "idle"
         /\ events' = events /\ ledger' = ledger /\ redemptions' = redemptions

C34_TerminalEventsUntouched ==
  [][C34_StatusKept /\ C34_ProcessEventSkips /\ C34_RedeliverySkips]_vars


(* C35: recording the same refund twice (the refund event of one payment,  *)
(* delivered again) leaves one REFUND ledger entry for the transaction and *)
(* lowers the cached balance by the refunded points once.                  *)
C35_RefundRecordedOnce ==
  \A t \in 1..Len(transactions) :
    LET refunds == {i \in 1..Len(entries) :
                      entries[i].type = "REFUND" /\ entries[i].transactionId = t}
    IN Cardinality(refunds) <= 1


(* C36: in every reachable state every EARN ledger entry has points > 0    *)
(* and every REDEEM or REFUND entry has points < 0, whichever path wrote   *)
(* it.                                                                     *)
C36_EntrySigns ==
  /\ \A i \in 1..Len(ledger) :
       IF ledger[i].type = "EARN" THEN ledger[i].pointsDelta > 0
                                  ELSE ledger[i].pointsDelta < 0
  /\ \A i \in 1..Len(entries) :
       IF entries[i].type = "EARN" THEN entries[i].points > 0
                                   ELSE entries[i].points < 0


(* C37: the ledger is append-only: every step of every operation (earn and *)
(* redeem calls and their idempotent replays, confirm, the sweep of        *)
(* expired redemptions, webhook processing) leaves every existing ledger   *)
(* entry in place and unmodified; the ledger only grows.                   *)
C37_LedgerKept ==
  /\ Len(ledger') >= Len(ledger)
  /\ \A i \in 1..Len(ledger) : ledger'[i] = ledger[i]

C37_EntriesKept ==
  /\ Len(entries') >= Len(entries)
  /\ \A i \in 1..Len(entries) : entries'[i] = entries[i]

C37_AppendOnly == [][C37_LedgerKept /\ C37_EntriesKept]_vars

\* a payment was credited and replayed and the redemption confirmed: the
\* seed entry is followed by the EARN and the REDEEM entry
C37_Witness ==
  /\ Len(ledger) = 3
  /\ ledger[1] = SeedLedger[1]
  /\ \E i \in {2, 3} : ledger[i].type = "EARN"
  /\ \E i \in {2, 3} : ledger[i].type = "REDEEM"
  /\ Len(events) = 2
  /\ \A i \in 1..2 : events[i].status = "PROCESSED"
  /\ AllIdle


C39_Bounded ==
  \A p \in Procs :
    pc[p] \in {"ir_token", "ir_pin"} => loc[p].attempts \in 0..maxAttempts

C39_TokenRound ==
  \A p \in Procs, q \in QrTokens :
    InitiateToken(p, q) =>
      IF loc[p].attempts = maxAttempts
        THEN /\ pc'[p] = "idle" /\ res'[p].out = "no_unique_token"
             /\ tsRedemptions' = tsRedemptions
      ELSE IF isQRTokenUnique(q)
        THEN pc'[p] = "ir_pin" /\ loc'[p].qrToken = q /\ loc'[p].attempts = 0
        ELSE pc'[p] = "ir_token" /\ loc'[p].attempts = loc[p].attempts + 1

C39_PinRound ==
  \A p \in Procs, n \in Pins :
    InitiatePin(p, n) =>
      IF loc[p].attempts = maxAttempts
        THEN /\ pc'[p] = "idle" /\ res'[p].out = "no_unique_pin"
             /\ tsRedemptions' = tsRedemptions
      ELSE IF isPINUnique(n)
        THEN /\ pc'[p] = "ir_create" /\ loc'[p].pinCode = n
             /\ loc'[p].qrToken = loc[p].qrToken
        ELSE pc'[p] = "ir_pin" /\ loc'[p].attempts = loc[p].attempts + 1

C39_Persisted ==
  \A p \in Procs :
    InitiateCreate(p) =>
      /\ res'[p].out = "ok"
      /\ Len(tsRedemptions') = Len(tsRedemptions) + 1
      /\ LET row == tsRedemptions'[Len(tsRedemptions')]
         IN /\ row.status = "PENDING"
            /\ row.qrToken = loc[p].qrToken
            /\ row.pinCode = loc[p].pinCode

C39_GenerationTerminates ==
  /\ []C39_Bounded
  /\ [][C39_TokenRound /\ C39_PinRound /\ C39_Persisted]_vars

\* every token is taken and a call gave up after maxAttempts collisions
C39_Witness ==
  /\ \A q \in QrTokens : ~isQRTokenUnique(q)
  /\ \E p \in Procs : res[p].op = "initiate" /\ res[p].out = "no_unique_token"


(* C40: once a payment has been handled to its end and nothing is in       *)
(* flight, its Transaction, when it has a customer and pointsEarned > 0,   *)
(* has exactly one EARN ledger entry, also when an earlier run of the job  *)
(* failed after recording the Transaction and the job was run again.       *)
C40_CreditedOnce ==
  \A p \in Procs, t \in 1..Len(transactions) :
    (/\ AllIdle
     /\ res[p].op = "payment" /\ res[p].out = "ok" /\ res[p].id = t
     /\ transactions[t].customerId # NoRef
     /\ transactions[t].pointsEarned > 0)
      => Cardinality({i \in 1..Len(entries) :
                        entries[i].type = "EARN" /\ entries[i].transactionId = t}) = 1

====
